---- MODULE Spec2Model ----
(***************************************************************************)
(* The watchlist monitoring engine of near-balance-monitoring:             *)
(*   - AccountPersistenceManager (src/src/persistence.rs): the Vec of      *)
(*     MonitoredAccount entries and its write-temp-then-rename save;       *)
(*   - UserManager (src/src/bot.rs): the HashSet of chat ids and its save; *)
(*   - the command handler `answer` and the background monitoring loop of  *)
(*     `run` (src/src/bot.rs), which share both stores behind mutexes.     *)
(*                                                                         *)
(* One action is one run of a command handler (the store call, the save it *)
(* ends with and the reply, all made under the handler's mutex guard), one *)
(* step of the monitoring loop (the snapshot, a fetch, an alert, a         *)
(* write-back), or the end or the start of the process.  The outcome of    *)
(* every file-system step and of every network call is an input of the     *)
(* action: a file-system step succeeds, returns an error, or the process   *)
(* is killed at that step.  A killed process keeps what the file system    *)
(* holds (no power loss).                                                  *)
(***************************************************************************)
EXTENDS Integers, Sequences, FiniteSets, TLC

(***************************************************************************)
(* Bounds of the model.                                                    *)
(***************************************************************************)
\* Longest Vec<MonitoredAccount> that commands build when the file system
\* never fails (SpecStore).
MaxEntries == 3
\* Longest Vec that commands build beside the monitoring loop (Spec).
MaxWatched == 2
\* Longest Vec that commands build when the file system may fail and the
\* process may be killed (SpecDisk, SpecPersist).
MaxSaved == 2
\* How many file-system failures and process kills one behaviour may hold.
\* Ticks of the interval that can be ready at once.
MaxDue == 2
MaxFaults == 1

\* Telegram chat ids (msg.chat.id.0) that send commands.
Chats == {1, 2}
\* Chat ids that reach the handler at all (every command registers its chat).
Subscribers == {1, 2, 3}
\* Non-empty NEAR account ids that commands name.
AccountIds == {"a", "b"}
\* Balances (yoctoNEAR) the RPC may return for an account.  A u128 is held
\* as its limbs of base 1000, the most significant first, without a leading
\* zero limb (zero is <<0>>).
Balances == {<<5>>, <<7>>}

(***************************************************************************)
(* Option<u128>: None is the empty tuple, Some(v) the one-element tuple.   *)
(***************************************************************************)
None == <<>>
Some(v) == <<v>>
OptionBalance == {None} \cup {Some(v) : v \in Balances}

\* struct MonitoredAccount { account_id, last_balance, chat_id }
MonitoredAccount(a, lb, c) ==
    [account_id |-> a, last_balance |-> lb, chat_id |-> c]

\* The closure |a| a.account_id == account_id && a.chat_id == chat_id that
\* add_account, remove_account, update_account and update_balance all use.
same_key(e, a, c) == e.account_id = a /\ e.chat_id = c

\* iter().find / iter_mut().find: the position of the first entry with the
\* key, 0 when there is none.
find(accts, a, c) ==
    IF \E i \in 1..Len(accts) : same_key(accts[i], a, c)
    THEN CHOOSE i \in 1..Len(accts) :
            /\ same_key(accts[i], a, c)
            /\ \A j \in 1..(i - 1) : ~same_key(accts[j], a, c)
    ELSE 0

(***************************************************************************)
(* The store calls as functions of the Vec.  Each yields the new Vec, the  *)
(* value returned to the caller and whether the call ran self.save().      *)
(***************************************************************************)
\* add_account without its duplicate check.
add_account_unchecked(accts, account) ==
    [accounts |-> Append(accts, account), ret |-> "true", saved |-> TRUE]

add_account(accts, account) ==
    IF \E i \in 1..Len(accts) :
          same_key(accts[i], account.account_id, account.chat_id)
    THEN [accounts |-> accts, ret |-> "false", saved |-> FALSE]
    ELSE [accounts |-> Append(accts, account), ret |-> "true", saved |-> TRUE]

\* remove_account whose closure compares the account id alone.
remove_account_any_chat(accts, a, c) ==
    LET kept == SelectSeq(accts, LAMBDA e : e.account_id # a)
        removed == Len(kept) < Len(accts)
    IN  [accounts |-> kept,
         ret |-> IF removed THEN "true" ELSE "false",
         saved |-> removed]

remove_account(accts, a, c) ==
    LET kept == SelectSeq(accts, LAMBDA e : ~same_key(e, a, c))
        removed == Len(kept) < Len(accts)
    IN  [accounts |-> kept,
         ret |-> IF removed THEN "true" ELSE "false",
         saved |-> removed]

\* update_account without the reset of last_balance.
update_account_keeps_balance(accts, old_id, c, new_id) ==
    LET i == find(accts, old_id, c)
    IN  IF i # 0
        THEN [accounts |-> [accts EXCEPT ![i].account_id = new_id],
              ret |-> "Ok", saved |-> TRUE]
        ELSE [accounts |-> accts, ret |-> "Err", saved |-> FALSE]

\* update_account that resets the last_balance of every entry of the chat.
update_account_resets_chat(accts, old_id, c, new_id) ==
    LET i == find(accts, old_id, c)
    IN  IF i # 0
        THEN [accounts |->
                  [j \in 1..Len(accts) |->
                      IF j = i THEN MonitoredAccount(new_id, None, c)
                      ELSE IF accts[j].chat_id = c
                           THEN [accts[j] EXCEPT !.last_balance = None]
                           ELSE accts[j]],
              ret |-> "Ok", saved |-> TRUE]
        ELSE [accounts |-> accts, ret |-> "Err", saved |-> FALSE]

update_account(accts, old_id, c, new_id) ==
    LET i == find(accts, old_id, c)
    IN  IF i # 0
        THEN [accounts |-> [accts EXCEPT ![i].account_id = new_id,
                                         ![i].last_balance = None],
              ret |-> "Ok", saved |-> TRUE]
        ELSE [accounts |-> accts, ret |-> "Err", saved |-> FALSE]

\* update_balance that writes only to an entry that has no balance yet.
update_balance_once(accts, a, c, balance) ==
    LET i == find(accts, a, c)
    IN  IF i # 0
        THEN IF accts[i].last_balance = None
             THEN [accounts |->
                       [accts EXCEPT ![i].last_balance = Some(balance)],
                   ret |-> "true", saved |-> TRUE]
             ELSE [accounts |-> accts, ret |-> "true", saved |-> FALSE]
        ELSE [accounts |-> accts, ret |-> "false", saved |-> FALSE]

\* update_balance that puts the entry back when the store has none.
update_balance_or_insert(accts, a, c, balance) ==
    IF \E i \in 1..Len(accts) : same_key(accts[i], a, c)
    THEN LET i == find(accts, a, c)
         IN  IF accts[i].last_balance # Some(balance)
             THEN [accounts |->
                       [accts EXCEPT ![i].last_balance = Some(balance)],
                   ret |-> "true", saved |-> TRUE]
             ELSE [accounts |-> accts, ret |-> "true", saved |-> FALSE]
    ELSE [accounts |-> Append(accts, MonitoredAccount(a, Some(balance), c)),
          ret |-> "true", saved |-> TRUE]

\* update_balance that takes every entry of the account, whatever its chat.
update_balance_any_chat(accts, a, c, balance) ==
    IF \E i \in 1..Len(accts) :
           accts[i].account_id = a /\ accts[i].last_balance # Some(balance)
    THEN [accounts |->
              [i \in 1..Len(accts) |->
                  IF accts[i].account_id = a
                  THEN [accts[i] EXCEPT !.last_balance = Some(balance)]
                  ELSE accts[i]],
          ret |-> "true", saved |-> TRUE]
    ELSE [accounts |-> accts, ret |-> "false", saved |-> FALSE]

\* update_balance that saves whether or not the balance changed.
update_balance_always_saves(accts, a, c, balance) ==
    LET i == find(accts, a, c)
    IN  IF i # 0
        THEN [accounts |-> [accts EXCEPT ![i].last_balance = Some(balance)],
              ret |-> "true", saved |-> TRUE]
        ELSE [accounts |-> accts, ret |-> "false", saved |-> FALSE]

update_balance(accts, a, c, balance) ==
    LET i == find(accts, a, c)
    IN  IF i # 0
        THEN IF accts[i].last_balance # Some(balance)
             THEN [accounts |->
                       [accts EXCEPT ![i].last_balance = Some(balance)],
                   ret |-> "true", saved |-> TRUE]
             ELSE [accounts |-> accts, ret |-> "true", saved |-> FALSE]
        ELSE [accounts |-> accts, ret |-> "false", saved |-> FALSE]

\* get_accounts_for_chat without its filter.
get_accounts_for_any_chat(accts, c) == accts

get_accounts_for_chat(accts, c) ==
    SelectSeq(accts, LAMBDA e : e.chat_id = c)

get_all_accounts(accts) == accts

(***************************************************************************)
(* Files.  A file is missing, holds a complete text (data), or holds the   *)
(* prefix of a text that a write did not finish (partial).                 *)
(***************************************************************************)
Missing == [kind |-> "missing", data |-> <<>>]
Data(text) == [kind |-> "data", data |-> text]
Partial == [kind |-> "partial", data |-> <<>>]
\* A file that exists and that fs::read_to_string fails on.
Unreadable == [kind |-> "unreadable", data |-> <<>>]

\* u128::MAX and u64::MAX in limbs.
U128Max == <<340, 282, 366, 920, 938, 463, 463, 374, 607, 431, 768, 211, 455>>
U64Max == <<18, 446, 744, 73, 709, 551, 615>>

\* a <= b for two numbers in limbs.
leq(a, b) ==
    \/ Len(a) < Len(b)
    \/ /\ Len(a) = Len(b)
       /\ \/ a = b
          \/ \E i \in 1..Len(a) :
                a[i] < b[i] /\ \A j \in 1..(i - 1) : a[j] = b[j]

\* The decimal digits of a number held as a model integer, and back.
RECURSIVE digits_of(_)
digits_of(n) ==
    IF n < 10 THEN <<n>> ELSE Append(digits_of(n \div 10), n % 10)

RECURSIVE nat_of(_)
nat_of(ds) ==
    IF ds = <<>> THEN 0
    ELSE 10 * nat_of(SubSeq(ds, 1, Len(ds) - 1)) + ds[Len(ds)]

\* The decimal digits serde_json writes for a u128: three per limb, the
\* leading zeros dropped.
RECURSIVE limb_digits(_)
limb_digits(v) ==
    IF v = <<>> THEN <<>>
    ELSE <<Head(v) \div 100, (Head(v) \div 10) % 10, Head(v) % 10>>
             \o limb_digits(Tail(v))

RECURSIVE strip(_)
strip(ds) == IF Len(ds) > 1 /\ ds[1] = 0 THEN strip(Tail(ds)) ELSE ds

fmt_u128(v) == strip(limb_digits(v))

\* The number that serde_json's deserialize_u128 reads from decimal digits.
pad(ds) ==
    CASE Len(ds) % 3 = 0 -> ds
      [] Len(ds) % 3 = 1 -> <<0, 0>> \o ds
      [] Len(ds) % 3 = 2 -> <<0>> \o ds

RECURSIVE limbs_of(_)
limbs_of(ds) ==
    IF ds = <<>> THEN <<>>
    ELSE <<100 * ds[1] + 10 * ds[2] + ds[3]>>
             \o limbs_of(SubSeq(ds, 4, Len(ds)))

parse_u128(ds) == limbs_of(pad(ds))

\* Digits that a deserializer of u64 takes.
is_u64(ds) ==
    /\ ds # <<>>
    /\ Len(ds) > 1 => ds[1] # 0
    /\ leq(parse_u128(ds), U64Max)

\* Digits that deserialize_u128 takes: a JSON number without a leading zero
\* that is no more than u128::MAX.
is_u128(ds) ==
    /\ ds # <<>>
    /\ Len(ds) > 1 => ds[1] # 0
    /\ leq(parse_u128(ds), U128Max)

\* serde_json of Option<u128>: null or the decimal number.
json_of_balance(lb) ==
    IF lb = None THEN <<"null">> ELSE <<"number", fmt_u128(lb[1])>>
balance_of_json(j) ==
    IF j[1] = "null" THEN None ELSE Some(parse_u128(j[2]))

\* serializer.serialize_i64(chat_id.0): the sign and the decimal digits.
serialize_chat_id(c) ==
    IF c < 0 THEN <<"-", digits_of(0 - c)>> ELSE <<"", digits_of(c)>>

\* i64::deserialize(deserializer), then ChatId(id).
deserialize_chat_id(j) ==
    IF j[1] = "-" THEN 0 - nat_of(j[2]) ELSE nat_of(j[2])

\* serde_json::to_string_pretty(&self.accounts): an array with one object
\* per entry, fields in declaration order, chat_id through serialize_chat_id.
to_string_pretty(accts) ==
    [i \in 1..Len(accts) |->
        <<accts[i].account_id, json_of_balance(accts[i].last_balance),
          serialize_chat_id(accts[i].chat_id)>>]

\* i64::MAX and the magnitude of i64::MIN in limbs.
I64Max == <<9, 223, 372, 36, 854, 775, 807>>
I64MinAbs == <<9, 223, 372, 36, 854, 775, 808>>

\* The sign and the digits that i64::deserialize takes: a JSON integer
\* without a leading zero, in the range of i64; -0 is read as the float
\* -0.0 and refused.
is_i64(j) ==
    /\ j[2] # <<>>
    /\ Len(j[2]) > 1 => j[2][1] # 0
    /\ j[1] = "-" => j[2] # <<0>>
    /\ IF j[1] = "-" THEN leq(parse_u128(j[2]), I64MinAbs)
       ELSE leq(parse_u128(j[2]), I64Max)

\* The text is one that serde_json::from_str::<Vec<MonitoredAccount>> takes:
\* every last_balance is null or a number in the range of u128, and every
\* chat_id is a number that i64::deserialize takes.
parses(text) ==
    \A i \in 1..Len(text) :
        /\ text[i][2][1] = "null" \/ is_u128(text[i][2][2])
        /\ is_i64(text[i][3])

\* serde_json::from_str::<Vec<MonitoredAccount>>(&data) of such a text.
from_str(text) ==
    [i \in 1..Len(text) |->
        MonitoredAccount(text[i][1], balance_of_json(text[i][2]),
                         deserialize_chat_id(text[i][3]))]

\* load that takes every complete text, whatever its numbers.
load_lenient(f) == IF f.kind = "data" THEN from_str(f.data) ELSE <<>>

\* AccountPersistenceManager::load: a missing file, a file that cannot be
\* read and a text that does not parse give the empty Vec.
load(f) ==
    IF f.kind = "data" /\ parses(f.data) THEN from_str(f.data) ELSE <<>>


\* What one run of AccountPersistenceManager::save can come to: both steps
\* succeed; fs::write fails before it opened the temp file; it fails after
\* it truncated the temp file; fs::rename returns an error and
\* fs::remove_file removes the temp file; fs::rename returns an error and
\* so does fs::remove_file, whose result save ignores; the process is
\* killed while fs::write runs; it is killed between the two steps.
SaveOutcomes ==
    {"ok", "create_err", "write_err", "rename_err", "rename_remove_err",
     "kill_in_write", "kill_before_rename"}
\* What one run of UserManager::save can come to: fs::write succeeds; it
\* fails before it opened the file; it fails after it truncated the file;
\* the process is killed while it runs.
UserSaveOutcomes == {"ok", "create_err", "write_err", "kill_in_write"}
KillOutcomes == {"kill_in_write", "kill_before_rename"}
ErrOutcomes == {"write_err", "rename_err", "rename_remove_err", "create_err"}
FaultOutcomes == KillOutcomes \cup ErrOutcomes

\* save that writes the temp file and never renames it.
save_without_rename(d, accts, io) ==
    LET data == to_string_pretty(accts)
    IN  CASE io \in {"ok", "rename_err", "rename_remove_err",
                     "kill_before_rename"} ->
                [file |-> d.file, tmp |-> Data(data)]
          [] io = "create_err" -> [file |-> d.file, tmp |-> d.tmp]
          [] io \in {"write_err", "kill_in_write"} ->
                [file |-> d.file, tmp |-> Partial]

\* save that writes straight onto the target file, as UserManager::save does.
save_in_place(d, accts, io) ==
    LET data == to_string_pretty(accts)
    IN  CASE io \in {"ok", "rename_err", "rename_remove_err",
                     "kill_before_rename"} ->
                [file |-> Data(data), tmp |-> d.tmp]
          [] io = "create_err" -> [file |-> d.file, tmp |-> d.tmp]
          [] io \in {"write_err", "kill_in_write"} ->
                [file |-> Partial, tmp |-> d.tmp]

\* save without the fs::remove_file of the temp file when the rename fails.
save_leaves_tmp(d, accts, io) ==
    LET data == to_string_pretty(accts)
    IN  CASE io = "ok" -> [file |-> Data(data), tmp |-> Missing]
          [] io = "create_err" -> [file |-> d.file, tmp |-> d.tmp]
          [] io = "write_err" -> [file |-> d.file, tmp |-> Partial]
          [] io \in {"rename_err", "rename_remove_err"} ->
                [file |-> d.file, tmp |-> Data(data)]
          [] io = "kill_in_write" -> [file |-> d.file, tmp |-> Partial]
          [] io = "kill_before_rename" -> [file |-> d.file, tmp |-> Data(data)]

\* save whose clean-up after a failed rename removes the target file.
save_removes_target(d, accts, io) ==
    LET data == to_string_pretty(accts)
    IN  CASE io = "ok" -> [file |-> Data(data), tmp |-> Missing]
          [] io = "create_err" -> [file |-> d.file, tmp |-> d.tmp]
          [] io = "write_err" -> [file |-> d.file, tmp |-> Partial]
          [] io \in {"rename_err", "rename_remove_err"} ->
                [file |-> Missing, tmp |-> Data(data)]
          [] io = "kill_in_write" -> [file |-> d.file, tmp |-> Partial]
          [] io = "kill_before_rename" -> [file |-> d.file, tmp |-> Data(data)]

\* AccountPersistenceManager::save on the disk d = [file, tmp] of
\* monitored_accounts.json and monitored_accounts.json.tmp.
save(d, accts, io) ==
    LET data == to_string_pretty(accts)
    IN  CASE io = "ok" -> [file |-> Data(data), tmp |-> Missing]
          [] io = "create_err" -> [file |-> d.file, tmp |-> d.tmp]
          [] io = "write_err" -> [file |-> d.file, tmp |-> Partial]
          [] io = "rename_err" -> [file |-> d.file, tmp |-> Missing]
          [] io = "rename_remove_err" -> [file |-> d.file, tmp |-> Data(data)]
          [] io = "kill_in_write" -> [file |-> d.file, tmp |-> Partial]
          [] io = "kill_before_rename" -> [file |-> d.file, tmp |-> Data(data)]

(***************************************************************************)
(* UserManager.                                                            *)
(***************************************************************************)
\* The orders in which a HashSet<i64> may be iterated.
orderings(S) ==
    {s \in [1..Cardinality(S) -> S] :
        \A i, j \in 1..Cardinality(S) : s[i] = s[j] => i = j}

\* serde_json::from_str::<HashSet<i64>>(&data) of a complete text.
users_from_str(text) == {text[i] : i \in 1..Len(text)}

\* UserManager::load: unwrap_or_default twice, so a missing file and a text
\* that does not parse give the empty set.
load_users(f) == IF f.kind = "data" THEN users_from_str(f.data) ELSE {}

\* add_user that keeps the newest id only.
add_user_replacing(us, c) ==
    IF c \in us
    THEN [users |-> us, ret |-> "false", saved |-> FALSE]
    ELSE [users |-> {c}, ret |-> "true", saved |-> TRUE]

\* add_user that saves whether or not the id is new.
add_user_always_saves(us, c) ==
    [users |-> us \cup {c},
     ret |-> IF c \in us THEN "false" ELSE "true",
     saved |-> TRUE]

\* UserManager::add_user without its save.
add_user(us, c) ==
    IF c \in us
    THEN [users |-> us, ret |-> "false", saved |-> FALSE]
    ELSE [users |-> us \cup {c}, ret |-> "true", saved |-> TRUE]

\* UserManager::save: fs::write straight onto users.json; text is the
\* serde_json::to_string of the set in the order the HashSet iterates.
save_users(f, text, io) ==
    CASE io = "ok" -> Data(text)
      [] io = "create_err" -> f
      [] io = "write_err" -> Partial
      [] io = "kill_in_write" -> Partial

(***************************************************************************)
(* State.                                                                  *)
(***************************************************************************)
VARIABLES
    alive,       \* the process runs
    accounts,    \* AccountPersistenceManager.accounts
    file,        \* monitored_accounts.json
    tmp,         \* monitored_accounts.json.tmp
    users,       \* UserManager.users
    users_file,  \* users.json
    spc,         \* where the monitoring loop is: tick, fetch, send, update
    snap,        \* accounts_to_check, from the entry the loop is at
    cur,         \* current_balance of that entry, once fetched
    faults,      \* file-system failures and kills so far
    last,        \* the step just taken: the call, its result, how its save went
    lock,        \* who holds the Mutex of monitored_accounts
    tasks,       \* the invocations of answer() that are running
    due,         \* ticks of the interval that are ready and not yet taken
    alerts,      \* per key: the last alert send_message was called with
    notice       \* the deployment broadcast of run(): where it is, the
                 \* users still to notify, the attempts made

\* What only the task-level view of the handlers and the loop changes.
tvars == <<lock, tasks, due>>

\* With the record of the alerts, which the other views leave alone.
hvars == <<lock, tasks, due, alerts, notice>>

vars == <<alive, accounts, file, tmp, users, users_file, spc, snap, cur,
          faults, last, lock, tasks, due, alerts, notice>>

\* op: the call; ret: what it returned ("" when the process did not live to
\* see it); io: how its save went ("none" when it did not save); was: the
\* last_balance that update_account or update_balance found on the entry it
\* took (None for every other call).  The step of an Edit also holds the id
\* it replaced (old) and the key it gave the entry (key); the step of an
\* alert holds the message (msg); the step of a fetch holds what fetch_balance
\* returned (got: None for Err); the step of add_user holds the id (id).
Step(op, ret, io, was) == [op |-> op, ret |-> ret, io |-> io, was |-> was]

\* The last_balance of the first entry with the key, None when none has it.
Found(a, c) ==
    IF find(accounts, a, c) # 0
    THEN accounts[find(accounts, a, c)].last_balance
    ELSE None

\* What a reply says: which of the texts of answer() it is and, for the
\* list, the ids it names.
Text(kind, ids) == [kind |-> kind, ids |-> ids]
NoText == Text("", <<>>)

\* The holders of the Mutex of monitored_accounts: nobody, the handler of a
\* chat, the monitoring loop.
Nobody == <<>>
Handler(c) == <<"answer", c>>
Monitor == <<"run", 0>>

\* What is known of the alerts for a key.  kind: "none", no entry has been
\* given the key yet or the last command on the key took it from an entry
\* (remove, rename away); "new", the last thing that happened to the key is
\* an add or a rename to it; "sent", it is an alert, with the balance (new)
\* that the alert gave as new.  cycle: "this" until the loop takes its
\* next snapshot, then "past".
NoAlert == [kind |-> "none", new |-> None, cycle |-> "past"]
NewKey == [kind |-> "new", new |-> None, cycle |-> "this"]
SentAlert(v) == [kind |-> "sent", new |-> Some(v), cycle |-> "this"]

\* The deployment broadcast. pc: "off", run() has not come to it;
\* "broadcast", it is in the for loop; "spawned", the loop is over and the
\* monitoring task and the repl have been started. users: the ids that the
\* for loop has still to take. attempts: the calls of send_message made,
\* each with its user_id and how it went.
Broadcasting(users_left, attempts) ==
    [pc |-> "broadcast", users |-> users_left, attempts |-> attempts]
Spawned(attempts) == [pc |-> "spawned", users |-> <<>>, attempts |-> attempts]

\* No invocation of answer() runs for the chat.
Idle == [pc |-> "idle", cmd |-> "", args |-> <<>>, text |-> NoText]

\* Nobody holds the Mutex, no handler runs, and the first tick of the
\* interval is ready at once.
InitTasks ==
    /\ lock = Nobody
    /\ tasks = [c \in Chats |-> Idle]
    /\ due = 1
    /\ alerts = [k \in Chats \X AccountIds |-> NoAlert]
    /\ notice = Spawned(<<>>)

\* run(): both stores are loaded; no file exists before the first start.
Init ==
    /\ InitTasks
    /\ alive = TRUE
    /\ file = Missing
    /\ tmp = Missing
    /\ users_file = Missing
    /\ accounts = load(Missing)
    /\ users = load_users(Missing)
    /\ spc = "tick"
    /\ snap = <<>>
    /\ cur = None
    /\ faults = 0
    /\ last = Step("start", "", "none", None)

\* The memory of a killed process is gone.
Dead ==
    /\ alive' = FALSE
    /\ accounts' = <<>>
    /\ users' = {}
    /\ spc' = "tick"
    /\ snap' = <<>>
    /\ cur' = None

\* The outcomes a call may draw: "none" when it does not save; a fault only
\* within the budget.
Allowed(saved, io) ==
    IF saved THEN io # "none" /\ (io \in FaultOutcomes => faults < MaxFaults)
    ELSE io = "none"

Count(io) == IF io \in FaultOutcomes THEN faults + 1 ELSE faults

\* The watchlist files after a store call with result r.
Persisted(r, io) ==
    IF r.saved
    THEN save([file |-> file, tmp |-> tmp], r.accounts, io)
    ELSE [file |-> file, tmp |-> tmp]

\* A store call with result r and its save, made by a task that then goes
\* on: the Vec, the two files and the fault count after it.
StoreCall(r, io) ==
    /\ io \in SaveOutcomes \cup {"none"}
    /\ Allowed(r.saved, io)
    /\ file' = Persisted(r, io).file
    /\ tmp' = Persisted(r, io).tmp
    /\ faults' = Count(io)
    /\ UNCHANGED users_file

(***************************************************************************)
(* answer(): the command handler.                                          *)
(***************************************************************************)
\* "Record user": user_manager.lock, add_user, and the save it ends with.
\* Every handler starts with it; it shares nothing with the rest.
AddUser(c, io, text) ==
    LET r == add_user(users, c)
    IN  /\ alive /\ UNCHANGED hvars
        /\ io \in UserSaveOutcomes \cup {"none"}
        /\ Allowed(r.saved, io)
        /\ text \in orderings(r.users)
        /\ users_file' = IF r.saved THEN save_users(users_file, text, io)
                         ELSE users_file
        /\ faults' = Count(io)
        /\ last' = [op |-> "add_user",
                    ret |-> IF io \in KillOutcomes THEN "" ELSE r.ret,
                    io |-> io, was |-> None, id |-> c]
        /\ IF io \in KillOutcomes
           THEN Dead
           ELSE /\ users' = r.users
                /\ UNCHANGED <<alive, accounts, spc, snap, cur>>
        /\ UNCHANGED <<file, tmp>>

\* Command::Add with a non-empty id: lock, add_account (and its save), the
\* reply; the guard is dropped when the handler returns.  The reply changes
\* nothing of the state, whether it is delivered or not.
CmdAddNoting(c, a, io, noted) ==
    LET r == add_account(accounts, MonitoredAccount(a, None, c))
    IN  /\ alive /\ UNCHANGED <<tvars, notice>> /\ alerts' = noted
        /\ StoreCall(r, io)
        /\ IF io \in KillOutcomes
           THEN Dead /\ last' = Step("add", "", io, None)
           ELSE /\ accounts' = r.accounts
                /\ last' = Step("add", r.ret, io, None)
                /\ UNCHANGED <<alive, users, spc, snap, cur>>

\* CmdAdd in the views that keep no record of the alerts.
CmdAdd(c, a, io) == CmdAddNoting(c, a, io, alerts)

\* Command::Remove and Command::Delete: lock, remove_account (and its save),
\* the reply.
CmdRemoveNoting(c, a, io, noted) ==
    LET r == remove_account(accounts, a, c)
    IN  /\ alive /\ UNCHANGED <<tvars, notice>> /\ alerts' = noted
        /\ StoreCall(r, io)
        /\ IF io \in KillOutcomes
           THEN Dead /\ last' = Step("remove", "", io, None)
           ELSE /\ accounts' = r.accounts
                /\ last' = Step("remove", r.ret, io, None)
                /\ UNCHANGED <<alive, users, spc, snap, cur>>

\* CmdRemove in the views that keep no record of the alerts.
CmdRemove(c, a, io) == CmdRemoveNoting(c, a, io, alerts)

\* Command::Edit with two ids: lock, update_account (and its save), the
\* reply.
CmdEditNoting(c, old_id, new_id, io, noted) ==
    LET r == update_account(accounts, old_id, c, new_id)
    IN  /\ alive /\ UNCHANGED <<tvars, notice>> /\ alerts' = noted
        /\ StoreCall(r, io)
        /\ IF io \in KillOutcomes
           THEN Dead /\ last' = Step("edit", "", io, None)
           ELSE /\ accounts' = r.accounts
                /\ last' = [op |-> "edit", ret |-> r.ret, io |-> io,
                            was |-> Found(old_id, c), old |-> old_id,
                            key |-> <<c, new_id>>]
                /\ UNCHANGED <<alive, users, spc, snap, cur>>

\* CmdEdit in the views that keep no record of the alerts.
CmdEdit(c, old_id, new_id, io) == CmdEditNoting(c, old_id, new_id, io, alerts)

(***************************************************************************)
(* run(): the background monitoring loop.                                  *)
(***************************************************************************)
\* A loop over the store as it is: the entries that the store has got
\* since the snapshot join the cycle.
AdvanceLive ==
    LET more == SelectSeq(accounts,
                    LAMBDA e : \A i \in 1..Len(snap) :
                        ~same_key(snap[i], e.account_id, e.chat_id))
    IN  /\ snap' = Tail(snap) \o more
        /\ spc' = IF Tail(snap) \o more # <<>> THEN "fetch" ELSE "tick"
        /\ cur' = None

\* The loop moves to the next entry of accounts_to_check, or to the tick.
Advance ==
    /\ snap' = Tail(snap)
    /\ spc' = IF Len(snap) > 1 THEN "fetch" ELSE "tick"
    /\ cur' = None

\* interval.tick(), then the snapshot under the lock.
SnapshotNoting(noted) ==
    /\ alive /\ spc = "tick" /\ UNCHANGED <<tvars, notice>> /\ alerts' = noted
    /\ snap' = get_all_accounts(accounts)
    /\ spc' = IF accounts # <<>> THEN "fetch" ELSE "tick"
    /\ cur' = None
    /\ last' = Step("snapshot", "", "none", None)
    /\ UNCHANGED <<alive, accounts, file, tmp, users, users_file, faults>>

\* Snapshot in the views that keep no record of the alerts.
Snapshot == SnapshotNoting(alerts)

\* A comparison that takes an entry never sampled as unchanged.
changed_unless_unknown(account, current_balance) ==
    /\ account.last_balance # None
    /\ account.last_balance # Some(current_balance)

\* let changed = account.last_balance != Some(current_balance);
changed(account, current_balance) ==
    account.last_balance # Some(current_balance)

\* The alert: whom send_message is called for, and what the text names (old
\* is None where the text says "Unknown").
alert_message(account, current_balance) ==
    [to |-> account.chat_id, account_id |-> account.account_id,
     old |-> account.last_balance, new |-> current_balance]

\* The cycle ends at the first fetch that fails.
AbortCycle ==
    /\ snap' = <<>>
    /\ spc' = "tick"
    /\ cur' = None

\* The loop ends at the first fetch that fails.
StopLoop ==
    /\ snap' = <<>>
    /\ spc' = "stopped"
    /\ cur' = None

\* Err(e) of fetch_balance: the error is logged and the loop goes on.
FetchFailed == Advance

\* near_client.fetch_balance(&account.account_id) and the comparison.
Fetch(res) ==
    /\ alive /\ spc = "fetch" /\ UNCHANGED hvars
    /\ last' = [op |-> "fetch", ret |-> IF res = None THEN "Err" ELSE "Ok",
                io |-> "none", was |-> None, got |-> res]
    /\ IF res = None
       THEN FetchFailed
       ELSE IF changed(snap[1], res[1])
            THEN /\ spc' = "send"
                 /\ cur' = res
                 /\ snap' = snap
            ELSE Advance
    /\ UNCHANGED <<alive, accounts, file, tmp, users, users_file, faults>>

\* An alert whose failure ends the work on the entry.
SendAlertOrSkip(sent) ==
    /\ alive /\ spc = "send" /\ UNCHANGED hvars
    /\ IF sent = "Err" THEN Advance
       ELSE spc' = "update" /\ UNCHANGED <<snap, cur>>
    /\ last' = [op |-> "alert", ret |-> sent, io |-> "none", was |-> None,
                msg |-> alert_message(snap[1], cur[1])]
    /\ UNCHANGED <<alive, accounts, file, tmp, users, users_file, faults>>

\* bot_for_loop.send_message(account.chat_id, message): the alert; its
\* result is logged and the loop goes on to the write-back.
SendAlertNoting(sent, noted) ==
    /\ alive /\ spc = "send" /\ UNCHANGED <<tvars, notice>> /\ alerts' = noted
    /\ spc' = "update"
    /\ last' = [op |-> "alert", ret |-> sent, io |-> "none", was |-> None,
                msg |-> alert_message(snap[1], cur[1])]
    /\ UNCHANGED <<alive, accounts, file, tmp, users, users_file, snap, cur,
                   faults>>

\* SendAlert in the views that keep no record of the alerts.
SendAlert(sent) == SendAlertNoting(sent, alerts)

\* "Persist updated balance": lock, update_balance (and its save).
WriteBack(io) ==
    LET r == update_balance(accounts, snap[1].account_id, snap[1].chat_id,
                            cur[1])
    IN  /\ alive /\ spc = "update" /\ UNCHANGED hvars
        /\ StoreCall(r, io)
        /\ IF io \in KillOutcomes
           THEN Dead /\ last' = Step("update_balance", "", io, None)
           ELSE /\ accounts' = r.accounts
                /\ last' = Step("update_balance", r.ret, io,
                                Found(snap[1].account_id, snap[1].chat_id))
                /\ Advance
                /\ UNCHANGED <<alive, users>>

(***************************************************************************)
(* The process.                                                            *)
(***************************************************************************)
\* The process is killed between two steps.
Kill ==
    /\ alive /\ faults < MaxFaults /\ UNCHANGED hvars
    /\ Dead
    /\ faults' = faults + 1
    /\ last' = Step("kill", "", "none", None)
    /\ UNCHANGED <<file, tmp, users_file>>

\* The process starts again: run() loads both stores.
Restart ==
    /\ ~alive /\ UNCHANGED hvars
    /\ alive' = TRUE
    /\ accounts' = load(file)
    /\ users' = load_users(users_file)
    /\ last' = Step("restart", "", "none", None)
    /\ UNCHANGED <<file, tmp, users_file, spc, snap, cur, faults>>

\* The process is stopped between two steps and run() starts again on the
\* files it left.
Reload ==
    /\ alive /\ UNCHANGED hvars
    /\ accounts' = load(file)
    /\ users' = load_users(users_file)
    /\ spc' = "tick"
    /\ snap' = <<>>
    /\ cur' = None
    /\ last' = Step("reload", "", "none", None)
    /\ UNCHANGED <<alive, file, tmp, users_file, faults>>

\* The write-back of the monitoring loop seen from the store: the loop calls
\* update_balance for an entry (a, c) of its snapshot with a fetched v.  A
\* fetch may fail and may return any balance, and the snapshot may be older
\* than any number of commands, so the loop can come to make this call for
\* any key and any balance.
PollUpdate(a, c, v, io) ==
    LET r == update_balance(accounts, a, c, v)
    IN  /\ alive /\ UNCHANGED hvars
        /\ StoreCall(r, io)
        /\ IF io \in KillOutcomes
           THEN Dead /\ last' = Step("update_balance", "", io, None)
           ELSE /\ accounts' = r.accounts
                /\ last' = Step("update_balance", r.ret, io, Found(a, c))
                /\ UNCHANGED <<alive, users, spc, snap, cur>>

Sent == {"Ok", "Err"}
AnyIo == SaveOutcomes \cup UserSaveOutcomes \cup {"none"}
NoFault == {"ok", "none"}

\* An Add of chat c for id a keeps the Vec within cap entries.
Room(c, a, cap) ==
    add_account(accounts, MonitoredAccount(a, None, c)).saved
        => Len(accounts) < cap

(***************************************************************************)
(* answer() as a task.  One invocation runs per chat at a time; a step of  *)
(* a task goes from one .await to the next.  The save that ends a store    *)
(* call is a step of its own, taken under the guard that the call holds.   *)
(***************************************************************************)
\* The text after the command, split at white space: none for an empty
\* account id.
Parts == {<<>>, <<"a">>, <<"b">>, <<"a", "b">>, <<"a", "b", "a">>}

\* The variants of Command with what follows them.
Inputs ==
    [name : {"help", "start", "list"}, args : {<<>>}]
    \cup [name : {"balance", "trxs"}, args : {<<>>, <<"a">>}]
    \cup [name : {"add", "remove"}, args : {p \in Parts : Len(p) <= 1}]
    \cup [name : {"edit"}, args : {p \in Parts : Len(p) # 1}]

\* The commands of a second chat that watches the account a.
OtherInputs ==
    [name : {"add", "remove", "list"}, args : {<<"a">>}]

\* account_id of Balance, Add, Remove and Trxs.
id_of(args) == IF args = <<>> THEN "" ELSE args[1]

\* A String as the byte lengths of its chars.
RECURSIVE byte_len(_)
byte_len(str) == IF str = <<>> THEN 0 ELSE str[1] + byte_len(Tail(str))

\* str.is_char_boundary(n).
is_char_boundary(str, n) ==
    \E k \in 0..Len(str) : byte_len(SubSeq(str, 1, k)) = n

\* &tx.hash[..10]: the chars of the first ten bytes; the slice panics (None)
\* when the hash is shorter or byte 10 is inside a char.
hash_prefix(hash) ==
    IF is_char_boundary(hash, 10)
    THEN Some(SubSeq(hash, 1,
                     CHOOSE k \in 0..Len(hash) :
                         byte_len(SubSeq(hash, 1, k)) = 10))
    ELSE None

\* transaction_hash values: twelve ASCII chars, three ASCII chars, and nine
\* ASCII chars followed by a char of two bytes.
LongHash == <<1, 1, 1, 1, 1, 1, 1, 1, 1, 1, 1, 1>>
ShortHash == <<1, 1, 1>>
SplitHash == <<1, 1, 1, 1, 1, 1, 1, 1, 1, 2, 1>>

\* What fetch_transactions returns: Err, or Ok of the hashes of the list.
TrxsResults ==
    {None, Some(<<>>), Some(<<LongHash>>), Some(<<LongHash, ShortHash>>),
     Some(<<SplitHash>>)}

\* The arm Ok(txs) of Trxs: the reply it builds, None when building it
\* panics.
trxs_text(txs) ==
    IF txs = <<>> THEN Some(Text("no_trxs", <<>>))
    ELSE IF \E i \in 1..Len(txs) : hash_prefix(txs[i]) = None
         THEN None
         ELSE Some(Text("trxs", <<>>))

\* answer() with an Add that does not look at its account_id.
dispatch_add_unchecked(name, args) ==
    CASE name = "help" -> [pc |-> "reply", text |-> Text("descriptions", <<>>)]
      [] name = "start" -> [pc |-> "reply", text |-> Text("welcome", <<>>)]
      [] name = "balance" ->
            IF id_of(args) = ""
            THEN [pc |-> "reply", text |-> Text("usage_balance", <<>>)]
            ELSE [pc |-> "fetch", text |-> NoText]
      [] name = "add" -> [pc |-> "wait", text |-> NoText]
      [] name = "remove" -> [pc |-> "wait", text |-> NoText]
      [] name = "edit" ->
            IF Len(args) # 2
            THEN [pc |-> "reply", text |-> Text("usage_edit", <<>>)]
            ELSE [pc |-> "wait", text |-> NoText]
      [] name = "list" -> [pc |-> "wait", text |-> NoText]
      [] name = "trxs" ->
            IF id_of(args) = ""
            THEN [pc |-> "reply", text |-> Text("usage_trxs", <<>>)]
            ELSE [pc |-> "fetch", text |-> NoText]

\* Where answer() is at its first .await after "Record user", and the reply
\* it has ready when that .await is the send_message.
dispatch(name, args) ==
    CASE name = "help" -> [pc |-> "reply", text |-> Text("descriptions", <<>>)]
      [] name = "start" -> [pc |-> "reply", text |-> Text("welcome", <<>>)]
      [] name = "balance" ->
            IF id_of(args) = ""
            THEN [pc |-> "reply", text |-> Text("usage_balance", <<>>)]
            ELSE [pc |-> "fetch", text |-> NoText]
      [] name = "add" ->
            IF id_of(args) = ""
            THEN [pc |-> "reply", text |-> Text("provide_id", <<>>)]
            ELSE [pc |-> "wait", text |-> NoText]
      [] name = "remove" -> [pc |-> "wait", text |-> NoText]
      [] name = "edit" ->
            IF Len(args) # 2
            THEN [pc |-> "reply", text |-> Text("usage_edit", <<>>)]
            ELSE [pc |-> "wait", text |-> NoText]
      [] name = "list" -> [pc |-> "wait", text |-> NoText]
      [] name = "trxs" ->
            IF id_of(args) = ""
            THEN [pc |-> "reply", text |-> Text("usage_trxs", <<>>)]
            ELSE [pc |-> "fetch", text |-> NoText]

\* The store call of the command of chat c, without its save.
store_call(accts, name, args, c) ==
    CASE name = "add" ->
            add_account(accts, MonitoredAccount(id_of(args), None, c))
      [] name = "remove" -> remove_account(accts, id_of(args), c)
      [] name = "edit" -> update_account(accts, args[1], c, args[2])
      [] name = "list" -> [accounts |-> accts, ret |-> "", saved |-> FALSE]

\* guard.get_accounts_for_chat(msg.chat.id).iter().map(|acc| account_id).
listed(accts, c) ==
    [i \in 1..Len(get_accounts_for_chat(accts, c)) |->
        get_accounts_for_chat(accts, c)[i].account_id]

\* The reply of the command after its store call returned ret.
store_text(accts, name, ret, c) ==
    CASE name = "add" ->
            IF ret = "true" THEN Text("added", <<>>)
            ELSE Text("already", <<>>)
      [] name = "remove" ->
            IF ret = "true" THEN Text("removed", <<>>)
            ELSE Text("not_found", <<>>)
      [] name = "edit" ->
            IF ret = "Ok" THEN Text("updated", <<>>)
            ELSE Text("not_found", <<>>)
      [] name = "list" ->
            IF listed(accts, c) = <<>> THEN Text("list_empty", <<>>)
            ELSE Text("list", listed(accts, c))

\* Who holds the Mutex while the reply of the command is sent: List drops
\* its guard before send_message; the guard of Add, Remove and Edit lives
\* until the handler returns.
held_at_reply(name, c) == IF name = "list" THEN Nobody ELSE Handler(c)

\* The Mutex lets everybody in.
free_always(l) == TRUE

\* monitored_accounts.lock().await returns: nobody holds the Mutex.
free(l) == l = Nobody

\* The state of the task of chat c becomes t.
Task(c, t) == tasks' = [tasks EXCEPT ![c] = t]

\* A step of the task of chat c: what it did and how that went.
TaskStep(op, c, ret) ==
    [op |-> op, ret |-> ret, io |-> "none", was |-> None, chat |-> c]

\* answer() for the command cmd of chat c, which is at from: "Record user",
\* then the match up to its first .await.
ReceiveFrom(c, cmd, order, from) ==
    LET r == add_user(users, c)
        d == dispatch(cmd.name, cmd.args)
    IN  /\ alive /\ tasks[c].pc = from
        /\ order \in orderings(r.users)
        /\ users' = r.users
        /\ users_file' = IF r.saved THEN save_users(users_file, order, "ok")
                         ELSE users_file
        /\ Task(c, [pc |-> d.pc, cmd |-> cmd.name, args |-> cmd.args,
                    text |-> d.text])
        /\ last' = TaskStep("receive", c, r.ret)
        /\ UNCHANGED <<alive, accounts, file, tmp, spc, snap, cur, faults,
                       lock, due, alerts, notice>>


\* A command of chat c arrives and "Record user" gets its lock at once.
Receive(c, cmd, order) == ReceiveFrom(c, cmd, order, "idle")

\* The guard of "Record user" lives on until answer() returns.
holds_users_through(t) == t.pc \notin {"idle", "arrive"}

\* The task holds the Mutex of user_manager: the guard lives in the block of
\* "Record user" only.
holds_users(t) == t.pc = "record"

\* A command of chat c arrives: answer() runs up to user_manager.lock().
Arrive(c, cmd) ==
    /\ alive /\ tasks[c].pc = "idle"
    /\ Task(c, [pc |-> "arrive", cmd |-> cmd.name, args |-> cmd.args,
                text |-> NoText])
    /\ last' = TaskStep("arrive", c, "")
    /\ UNCHANGED <<alive, accounts, file, tmp, users, users_file, spc, snap,
                   cur, faults, lock, due, alerts, notice>>

\* user_manager.lock().await returns.
LockUsers(c) ==
    /\ alive /\ tasks[c].pc = "arrive"
    /\ \A d \in Chats : ~holds_users(tasks[d])
    /\ Task(c, [tasks[c] EXCEPT !.pc = "record"])
    /\ last' = TaskStep("lock_users", c, "")
    /\ UNCHANGED <<alive, accounts, file, tmp, users, users_file, spc, snap,
                   cur, faults, lock, due, alerts, notice>>

\* add_user under the guard, the end of the block, and the match up to its
\* first .await.
Recorded(c, order) ==
    ReceiveFrom(c, [name |-> tasks[c].cmd, args |-> tasks[c].args], order,
                "record")

\* near_client.fetch_balance(&account_id) of Balance returns.
FetchedBalance(c, res) ==
    /\ alive /\ tasks[c].pc = "fetch" /\ tasks[c].cmd = "balance"
    /\ Task(c, [tasks[c] EXCEPT
                  !.pc = "reply",
                  !.text = IF res = None THEN Text("error_balance", <<>>)
                           ELSE Text("balance", <<>>)])
    /\ last' = TaskStep("fetch_balance", c, IF res = None THEN "Err" ELSE "Ok")
    /\ UNCHANGED <<alive, accounts, file, tmp, users, users_file, spc, snap,
                   cur, faults, lock, due, alerts, notice>>

\* near_client.fetch_transactions(&account_id) of Trxs returns; a panic
\* ends the task.
FetchedTrxs(c, res) ==
    /\ alive /\ tasks[c].pc = "fetch" /\ tasks[c].cmd = "trxs"
    /\ IF res = None
       THEN /\ Task(c, [tasks[c] EXCEPT !.pc = "reply",
                                        !.text = Text("error_trxs", <<>>)])
            /\ last' = TaskStep("fetch_transactions", c, "Err")
       ELSE IF trxs_text(res[1]) = None
            THEN /\ Task(c, Idle)
                 /\ last' = TaskStep("panic", c, "")
            ELSE /\ Task(c, [tasks[c] EXCEPT !.pc = "reply",
                                             !.text = trxs_text(res[1])[1]])
                 /\ last' = TaskStep("fetch_transactions", c, "Ok")
    /\ UNCHANGED <<alive, accounts, file, tmp, users, users_file, spc, snap,
                   cur, faults, lock, due, alerts, notice>>

\* monitored_accounts.lock().await returns and the store is called; the
\* save, when the call makes one, is the next step of the task.
Enter(c) ==
    LET t == tasks[c]
        r == store_call(accounts, t.cmd, t.args, c)
    IN  /\ alive /\ t.pc = "wait"
        /\ free(lock)
        /\ accounts' = r.accounts
        /\ lock' = IF r.saved THEN Handler(c) ELSE held_at_reply(t.cmd, c)
        /\ Task(c, [t EXCEPT !.pc = IF r.saved THEN "save" ELSE "reply",
                             !.text = store_text(accounts, t.cmd, r.ret, c)])
        /\ last' = TaskStep("enter", c, r.ret)
        /\ UNCHANGED <<alive, file, tmp, users, users_file, spc, snap, cur,
                       faults, due, alerts, notice>>

\* self.save() at the end of the store call.
Saved(c) ==
    LET t == tasks[c]
        d == save([file |-> file, tmp |-> tmp], accounts, "ok")
    IN  /\ alive /\ t.pc = "save"
        /\ file' = d.file
        /\ tmp' = d.tmp
        /\ lock' = IF lock = Handler(c) THEN held_at_reply(t.cmd, c)
                    ELSE lock
        /\ Task(c, [t EXCEPT !.pc = "reply"])
        /\ last' = TaskStep("saved", c, "")
        /\ UNCHANGED <<alive, accounts, users, users_file, spc, snap, cur,
                       faults, due, alerts, notice>>

\* The step of a reply: what send_message returned and which text it was
\* called with.
ReplyStep(c, sent) ==
    [op |-> "reply", ret |-> sent, io |-> "none", was |-> None, chat |-> c,
     text |-> tasks[c].text.kind]

\* A handler that takes its Add back when the reply fails.
ReplyOrUndo(c, sent) ==
    /\ alive /\ tasks[c].pc = "reply"
    /\ Task(c, Idle)
    /\ lock' = IF lock = Handler(c) THEN Nobody ELSE lock
    /\ last' = ReplyStep(c, sent)
    /\ accounts' = IF sent = "Err" /\ tasks[c].text.kind = "added"
                   THEN remove_account(accounts, id_of(tasks[c].args),
                                       c).accounts
                   ELSE accounts
    /\ UNCHANGED <<alive, file, tmp, users, users_file, spc, snap, cur,
                   faults, due, alerts, notice>>

\* bot.send_message(msg.chat.id, ..) returns and answer() returns with it:
\* the guard, if the task still has one, is dropped.
Reply(c, sent) ==
    /\ alive /\ tasks[c].pc = "reply"
    /\ Task(c, Idle)
    /\ lock' = IF lock = Handler(c) THEN Nobody ELSE lock
    /\ last' = ReplyStep(c, sent)
    /\ UNCHANGED <<alive, accounts, file, tmp, users, users_file, spc, snap,
                   cur, faults, due, alerts, notice>>

\* The handlers of the chats cs for the commands cmds that fetch nothing,
\* the store holding at most cap entries.
StoreHandlers(cs, cmds, cap) ==
    \/ \E c \in cs, cmd \in cmds :
          \E order \in orderings(add_user(users, c).users) :
          /\ cmd.name = "add" => Room(c, id_of(cmd.args), cap)
          /\ Receive(c, cmd, order)
    \/ \E c \in cs : Enter(c)
    \/ \E c \in cs : Saved(c)
    \/ \E c \in cs, sent \in Sent : Reply(c, sent)

\* The handlers of the chats cs for the commands cmds.
Handlers(cs, cmds, cap) ==
    \/ StoreHandlers(cs, cmds, cap)
    \/ \E c \in cs, res \in OptionBalance : FetchedBalance(c, res)
    \/ \E c \in cs, res \in TrxsResults : FetchedTrxs(c, res)

\* The handlers' store commands with save outcomes ios; keys holds the
\* pairs <<chat, id>> of the chats that send them and the ids they name.
Commands(keys, ios, cap) ==
    \/ \E k \in keys, io \in ios :
          Room(k[1], k[2], cap) /\ CmdAdd(k[1], k[2], io)
    \/ \E k \in keys, io \in ios : CmdRemove(k[1], k[2], io)
    \/ \E k \in keys, n \in AccountIds, io \in ios :
          <<k[1], n>> \in keys /\ CmdEdit(k[1], k[2], n, io)

\* The write-backs the monitoring loop can come to make for those keys,
\* with the balances vals.
Updates(keys, vals, ios) ==
    \E k \in keys, v \in vals, io \in ios :
        PollUpdate(k[2], k[1], v, io)

\* The monitoring loop.
Loop(ios) ==
    \/ Snapshot
    \/ \E res \in OptionBalance : Fetch(res)
    \/ \E sent \in Sent : SendAlert(sent)
    \/ \E io \in ios : WriteBack(io)

\* The handlers and the monitoring loop on the watchlist, the file system
\* never failing.
Next == Commands(Chats \X AccountIds, NoFault, MaxWatched) \/ Loop(NoFault)

Spec == Init /\ [][Next]_vars

\* The keys of the store's callers: chat 1 names both ids, chat 2 one.
StoreKeys == {<<1, "a">>, <<1, "b">>, <<2, "a">>}

\* The watchlist store under every caller's calls, the file system never
\* failing.
NextStore ==
    \/ Commands(StoreKeys, NoFault, MaxEntries)
    \/ Updates(StoreKeys, Balances, NoFault)

SpecStore == Init /\ [][NextStore]_vars

\* The handlers and the monitoring loop for two chats that watch one id.
PollKeys == {<<1, "a">>, <<2, "a">>}

NextPoll == Commands(PollKeys, NoFault, MaxWatched) \/ Loop(NoFault)

SpecPoll == Init /\ [][NextPoll]_vars

\* The handlers and the monitoring loop for one chat that watches two ids
\* and renames one to the other.
RenameKeys == {<<1, "a">>, <<1, "b">>}

\* The chat adds id a only: an entry with id b is a renamed entry.
NextRename ==
    \/ \E io \in NoFault : Room(1, "a", MaxWatched) /\ CmdAdd(1, "a", io)
    \/ \E k \in RenameKeys, io \in NoFault : CmdRemove(k[1], k[2], io)
    \/ \E k \in RenameKeys, n \in AccountIds, io \in NoFault :
          CmdEdit(k[1], k[2], n, io)
    \/ Loop(NoFault)

SpecRename == Init /\ [][NextRename]_vars

\* The chat whose commands are followed when the file system may fail.
DiskChats == {1}
DiskKeys == DiskChats \X AccountIds
\* The balance the RPC returns when the file system may fail.
DiskBalances == {<<5>>}

\* The watchlist store and its two files, with file-system failures, kills
\* and restarts.
NextDisk ==
    \/ Commands(DiskKeys, AnyIo, MaxSaved)
    \/ Updates(DiskKeys, DiskBalances, AnyIo)
    \/ Kill
    \/ Restart

SpecDisk == Init /\ [][NextDisk]_vars

\* The subscriber registry and its file, with file-system failures, kills
\* and restarts.
NextUsers ==
    \/ \E c \in Subscribers, io \in AnyIo,
          text \in UNION {orderings(S) : S \in SUBSET Subscribers} :
          AddUser(c, io, text)
    \/ Kill
    \/ Restart

SpecUsers == Init /\ [][NextUsers]_vars

\* Both stores and their files in one process run, for the commands of one
\* chat: every save may return an error.
ErrIo == ErrOutcomes \cup NoFault

NextPersist ==
    \/ Commands(DiskKeys, ErrIo, MaxSaved)
    \/ Updates(DiskKeys, DiskBalances, ErrIo)
    \/ \E c \in DiskChats, io \in ErrIo,
          text \in UNION {orderings(S) : S \in SUBSET DiskChats} :
          AddUser(c, io, text)

SpecPersist == Init /\ [][NextPersist]_vars

\* The Vecs of at most n entries with keys from keys and balances from opts.
Vecs(keys, opts, n) ==
    UNION {[1..m -> {MonitoredAccount(k[2], lb, k[1]) :
                        k \in keys, lb \in opts}] : m \in 0..n}

\* A complete JSON text whose number is u128::MAX + 1.
TooBig ==
    <<<<"a", <<"number", fmt_u128(SubSeq(U128Max, 1, 12) \o <<456>>)>>,
        serialize_chat_id(1)>>>>

\* Complete JSON texts whose chat_id is written 01 and -0.
ZeroLedChat == <<<<"a", <<"null">>, <<"", <<0, 1>>>>>>>>
MinusZeroChat == <<<<"a", <<"null">>, <<"-", <<0>>>>>>>>

\* What run() may find at monitored_accounts.json and at users.json when it
\* starts: no file, a file it cannot read, a text cut short, texts that
\* do not parse, and the texts that the two saves write.
WatchFiles ==
    {Missing, Unreadable, Partial, Data(TooBig), Data(ZeroLedChat),
     Data(MinusZeroChat)}
        \cup {Data(to_string_pretty(v)) :
                 v \in Vecs(DiskKeys, {None} \cup {Some(b) : b \in DiskBalances},
                            MaxSaved)}
UserFiles ==
    {Missing, Unreadable, Partial}
        \cup {Data(t) : t \in UNION {orderings(S) : S \in SUBSET Subscribers}}

\* Keys and balances for the path from save to load: a private chat and a
\* group chat (a negative id); a small balance, 2^64 and u128::MAX.
RoundTripKeys == {<<1, "a">>, <<1, "b">>, <<0 - 3, "a">>}
RoundTripBalances == {<<5>>, <<18, 446, 744, 73, 709, 551, 616>>, U128Max}

\* The store under every caller's calls, the file system never failing, and
\* the process started again at any point.
NextRoundTrip ==
    \/ Commands(RoundTripKeys, NoFault, MaxSaved)
    \/ Updates(RoundTripKeys, RoundTripBalances, NoFault)
    \/ Reload

SpecRoundTrip == Init /\ [][NextRoundTrip]_vars

\* The process is about to start on files of any of these kinds.
InitLoad ==
    /\ InitTasks
    /\ alive = FALSE
    /\ file \in WatchFiles
    /\ tmp = Missing
    /\ users_file \in UserFiles
    /\ accounts = <<>>
    /\ users = {}
    /\ spc = "tick"
    /\ snap = <<>>
    /\ cur = None
    /\ faults = 0
    /\ last = Step("kill", "", "none", None)

NextLoad == Restart

SpecLoad == InitLoad /\ [][NextLoad]_vars

(***************************************************************************)
(* The monitoring loop as a task, from one .await to the next: the tick,   *)
(* the lock for the snapshot, the fetch, the alert, the lock for the       *)
(* write-back; the save of update_balance is a step of its own under the   *)
(* guard.                                                                  *)
(***************************************************************************)
\* MissedTickBehavior::Skip: the ticks that were missed are dropped.
tick_taken_skip(d) == 0

\* interval.tick().await returns: one of the ticks that are ready is taken
\* (the interval is built with the default MissedTickBehavior::Burst).
tick_taken(d) == d - 1

\* The guard of the snapshot lives on through the cycle.
kept_after_snapshot == Monitor

\* Who holds the Mutex after the block of the snapshot: its guard is
\* dropped at the end of the block.
after_snapshot == Nobody

\* A period of the interval passes.
Tick ==
    /\ alive /\ due < MaxDue
    /\ due' = due + 1
    /\ last' = Step("period", "", "none", None)
    /\ UNCHANGED <<alive, accounts, file, tmp, users, users_file, spc, snap,
                   cur, faults, lock, tasks, alerts, notice>>

\* interval.tick().await returns.
TakeTick ==
    /\ alive /\ spc = "tick" /\ due > 0
    /\ due' = tick_taken(due)
    /\ spc' = "lock"
    /\ last' = Step("tick", "", "none", None)
    /\ UNCHANGED <<alive, accounts, file, tmp, users, users_file, snap, cur,
                   faults, lock, tasks, alerts, notice>>

\* monitored_accounts_for_loop.lock().await returns, get_all_accounts().
TakeSnapshot ==
    /\ alive /\ spc = "lock"
    /\ free(lock)
    /\ snap' = get_all_accounts(accounts)
    /\ lock' = after_snapshot
    /\ spc' = IF accounts # <<>> THEN "fetch" ELSE "tick"
    /\ cur' = None
    /\ last' = Step("snapshot", "", "none", None)
    /\ UNCHANGED <<alive, accounts, file, tmp, users, users_file, faults,
                   tasks, due, alerts, notice>>

\* monitored_accounts_for_loop.lock().await returns, update_balance up to
\* its save.
EnterUpdate ==
    LET r == update_balance(accounts, snap[1].account_id, snap[1].chat_id,
                            cur[1])
    IN  /\ alive /\ spc = "update"
        /\ free(lock)
        /\ accounts' = r.accounts
        /\ last' = Step("update_balance", r.ret, "none",
                        Found(snap[1].account_id, snap[1].chat_id))
        /\ IF r.saved
           THEN lock' = Monitor /\ spc' = "save" /\ UNCHANGED <<snap, cur>>
           ELSE lock' = lock /\ Advance
        /\ UNCHANGED <<alive, file, tmp, users, users_file, faults, tasks,
                       due, alerts, notice>>

\* self.save() at the end of update_balance; the guard is dropped at the
\* end of the branch.
SavedUpdate ==
    LET d == save([file |-> file, tmp |-> tmp], accounts, "ok")
    IN  /\ alive /\ spc = "save"
        /\ file' = d.file
        /\ tmp' = d.tmp
        /\ lock' = IF lock = Monitor THEN Nobody ELSE lock
        /\ Advance
        /\ last' = Step("update_saved", "", "ok", None)
        /\ UNCHANGED <<alive, accounts, users, users_file, faults, tasks,
                       due, alerts, notice>>

\* The steps of the loop.
Monitoring ==
    \/ Tick
    \/ TakeTick
    \/ TakeSnapshot
    \/ \E res \in OptionBalance : Fetch(res)
    \/ \E sent \in Sent : SendAlert(sent)
    \/ EnterUpdate
    \/ SavedUpdate

\* One chat adds and removes two accounts while the loop runs.
LockInputs == [name : {"add", "remove"}, args : {<<"a">>, <<"b">>}]

NextLock == StoreHandlers({1}, LockInputs, MaxWatched) \/ Monitoring

SpecLock == Init /\ [][NextLock]_vars

\* One chat adds and removes one account while the loop runs.
LiveInputs == [name : {"add", "remove"}, args : {<<"a">>}]

NextLive == StoreHandlers({1}, LiveInputs, MaxWatched) \/ Monitoring

\* What the runtime gives the tasks.  A period of the interval passes, and
\* a task that can go on does: the tick that is ready is taken and every
\* external call (fetch_balance, send_message, the write of the file)
\* returns.  The Mutex of tokio is fair, it is granted in the order of the
\* calls of lock(), so a task that waits for it gets it although the
\* other takes it again and again.
Fairness ==
    /\ WF_vars(Tick)
    /\ WF_vars(TakeTick)
    /\ SF_vars(TakeSnapshot)
    /\ WF_vars(\E res \in OptionBalance : Fetch(res))
    /\ WF_vars(\E sent \in Sent : SendAlert(sent))
    /\ SF_vars(EnterUpdate)
    /\ WF_vars(SavedUpdate)
    /\ WF_vars(Saved(1))
    /\ WF_vars(\E sent \in Sent : Reply(1, sent))

SpecLive == Init /\ [][NextLive]_vars /\ Fairness

\* One chat adds, removes and renames two accounts while the loop polls.
NextSample == Commands(RenameKeys, NoFault, MaxWatched) \/ Loop(NoFault)

\* The entries a snapshot may hold for chat 1.
SampleEntries ==
    {MonitoredAccount(a, lb, 1) : a \in AccountIds, lb \in OptionBalance}

\* fetch_balance returns Ok for the entry e of the snapshot.
FetchOk(e) ==
    /\ spc = "fetch" /\ snap[1] = e
    /\ \E v \in Balances : Fetch(Some(v))

\* What the runtime and the data source give the loop: the tick comes,
\* every external call returns, and the fetch for an entry that is asked
\* for again and again succeeds again and again.
FairSampling ==
    /\ WF_vars(Snapshot)
    /\ WF_vars(\E res \in OptionBalance : Fetch(res))
    /\ \A e \in SampleEntries : SF_vars(FetchOk(e))
    /\ WF_vars(\E sent \in Sent : SendAlert(sent))
    /\ WF_vars(\E io \in NoFault : WriteBack(io))

SpecSample == Init /\ [][NextSample]_vars /\ FairSampling

\* The key of an entry.
Key(e) == <<e.chat_id, e.account_id>>

\* The record of the alerts after the commands, the alert and the snapshot.
noted_add(c, a) ==
    IF add_account(accounts, MonitoredAccount(a, None, c)).saved
    THEN [alerts EXCEPT ![<<c, a>>] = NewKey]
    ELSE alerts

noted_remove(c, a) ==
    IF remove_account(accounts, a, c).saved
    THEN [alerts EXCEPT ![<<c, a>>] = NoAlert]
    ELSE alerts

noted_edit(c, old_id, new_id) ==
    IF update_account(accounts, old_id, c, new_id).saved
    THEN [alerts EXCEPT ![<<c, old_id>>] = NoAlert, ![<<c, new_id>>] = NewKey]
    ELSE alerts

noted_alert == [alerts EXCEPT ![Key(snap[1])] = SentAlert(cur[1])]

noted_snapshot ==
    [k \in DOMAIN alerts |-> [alerts[k] EXCEPT !.cycle = "past"]]

\* One chat adds the account a, and removes and renames its accounts, while
\* the loop polls, and the alerts are recorded.
NextChain ==
    \/ \E io \in NoFault :
          /\ Room(1, "a", MaxWatched)
          /\ CmdAddNoting(1, "a", io, noted_add(1, "a"))
    \/ \E a \in AccountIds, io \in NoFault :
          CmdRemoveNoting(1, a, io, noted_remove(1, a))
    \/ \E a \in AccountIds, io \in NoFault :
          \E n \in AccountIds \ {a} :
             CmdEditNoting(1, a, n, io, noted_edit(1, a, n))
    \/ SnapshotNoting(noted_snapshot)
    \/ \E res \in OptionBalance : Fetch(res)
    \/ \E sent \in Sent : SendAlertNoting(sent, noted_alert)
    \/ \E io \in NoFault : WriteBack(io)

SpecChain == Init /\ [][NextChain]_vars

\* The handlers of the chats cs for the commands cmds that fetch nothing,
\* with the lock of "Record user" as a step of its own.
LockingHandlers(cs, cmds, cap) ==
    \/ \E c \in cs, cmd \in cmds :
          /\ cmd.name = "add" => Room(c, id_of(cmd.args), cap)
          /\ Arrive(c, cmd)
    \/ \E c \in cs : LockUsers(c)
    \/ \E c \in cs :
          \E order \in orderings(add_user(users, c).users) :
             Recorded(c, order)
    \/ \E c \in cs : Enter(c)
    \/ \E c \in cs : Saved(c)
    \/ \E c \in cs, sent \in Sent : Reply(c, sent)

\* The command of a chat that watches one account, and that of a chat that
\* watches nothing.
AddInputs == [name : {"add"}, args : {<<"a">>}]
IdleInputs == [name : {"remove"}, args : {<<"a">>}]

\* One chat adds one account, again and again, another asks to remove what
\* it does not watch, while the loop runs.
NextProgress ==
    \/ LockingHandlers({1}, AddInputs, MaxWatched)
    \/ LockingHandlers({2}, IdleInputs, MaxWatched)
    \/ Monitoring

\* What the runtime gives the handlers: a handler that can go on does,
\* every reply returns, and both Mutexes, being fair, are granted to a
\* task that waits for them.  Nothing makes a command arrive.
FairHandlers ==
    \A c \in Chats :
        /\ SF_vars(LockUsers(c))
        /\ WF_vars(\E order \in orderings(add_user(users, c).users) :
                      Recorded(c, order))
        /\ SF_vars(Enter(c))
        /\ WF_vars(Saved(c))
        /\ WF_vars(\E sent \in Sent : Reply(c, sent))

\* The loop's part of Fairness.
FairLoop ==
    /\ WF_vars(Tick)
    /\ WF_vars(TakeTick)
    /\ SF_vars(TakeSnapshot)
    /\ WF_vars(\E res \in OptionBalance : Fetch(res))
    /\ WF_vars(\E sent \in Sent : SendAlert(sent))
    /\ SF_vars(EnterUpdate)
    /\ WF_vars(SavedUpdate)

SpecProgress == Init /\ [][NextProgress]_vars /\ FairHandlers /\ FairLoop

\* The commands of two chats that go for the Mutex at the same time: one
\* adds an account, renames it and removes it under its new id, the other
\* adds the same account.
RenameInputs ==
    [name : {"add"}, args : {<<"a">>}]
        \cup [name : {"edit"}, args : {<<"a", "b">>}]
        \cup [name : {"remove"}, args : {<<"b">>}]

\* The two handlers and the loop, whose every fetch gives one balance and
\* whose every alert is delivered.
NextContend ==
    \/ StoreHandlers({1}, RenameInputs, MaxWatched)
    \/ StoreHandlers({2}, AddInputs, MaxWatched)
    \/ Tick
    \/ TakeTick
    \/ TakeSnapshot
    \/ Fetch(Some(<<5>>))
    \/ SendAlert("Ok")
    \/ EnterUpdate
    \/ SavedUpdate

SpecContend == Init /\ [][NextContend]_vars

\* A transaction of the NearBlocks response: transaction_hash and
\* block_timestamp, each String a sequence of chars; a digit stands for
\* its ASCII char, and the digits are ordered as their bytes are.
Transaction(hash, block_timestamp) ==
    [hash |-> hash, block_timestamp |-> block_timestamp]

\* String::cmp: byte by byte from the left; when one string is a prefix of
\* the other, the shorter one is the smaller.
cmp(a, b) ==
    LET n == IF Len(a) < Len(b) THEN Len(a) ELSE Len(b)
        differ == {i \in 1..n : a[i] # b[i]}
        first == CHOOSE i \in differ : \A j \in differ : i <= j
    IN  IF differ # {}
        THEN IF a[first] < b[first] THEN "Less" ELSE "Greater"
        ELSE IF Len(a) < Len(b) THEN "Less"
        ELSE IF Len(a) > Len(b) THEN "Greater"
        ELSE "Equal"

\* The closure of sort_by: |a, b| b.block_timestamp.cmp(&a.block_timestamp).
by_timestamp_desc(a, b) == cmp(b.block_timestamp, a.block_timestamp)

\* The loop over near_blocks_response.txns: a transaction is pushed when
\* seen_hashes.insert(tx.hash.clone()) says that the hash is new.
RECURSIVE push_unseen(_, _)
push_unseen(txns, seen_hashes) ==
    IF txns = <<>> THEN <<>>
    ELSE IF Head(txns).hash \in seen_hashes
         THEN push_unseen(Tail(txns), seen_hashes)
         ELSE <<Head(txns)>>
                 \o push_unseen(Tail(txns), seen_hashes \cup {Head(txns).hash})

\* tx put into a sorted Vec behind everything that the closure does not
\* order after it.
RECURSIVE insert_sorted(_, _)
insert_sorted(sorted, tx) ==
    IF sorted = <<>> THEN <<tx>>
    ELSE IF by_timestamp_desc(Head(sorted), tx) = "Greater"
         THEN <<tx>> \o sorted
         ELSE <<Head(sorted)>> \o insert_sorted(Tail(sorted), tx)

\* Vec::sort_by with that closure: a stable sort, elements that compare
\* Equal keep their order.
RECURSIVE sort_by(_)
sort_by(txs) ==
    IF txs = <<>> THEN <<>>
    ELSE insert_sorted(sort_by(SubSeq(txs, 1, Len(txs) - 1)), txs[Len(txs)])

\* Vec::truncate(len).
truncate(txs, len) == IF Len(txs) > len THEN SubSeq(txs, 1, len) ELSE txs

\* The count that fetch_transactions truncates to.
TruncateLen == 10

\* fetch_transactions after the response has been parsed: the Vec of Ok.
fetch_transactions(txns) ==
    truncate(sort_by(push_unseen(txns, {})), TruncateLen)

\* ns_str.parse::<u128>() of a string of digits: None for Err, which the
\* empty string and a number above u128::MAX give, and Some of the number,
\* in limbs, for Ok; leading zeros are taken.
parse_digits(ns_str) ==
    IF ns_str = <<>> THEN None
    ELSE IF leq(parse_u128(strip(ns_str)), U128Max)
         THEN Some(parse_u128(strip(ns_str)))
         ELSE None

\* near_client.fetch_transactions(&account_id) of Trxs returns Ok for the
\* response txns, every hash of it longer than ten bytes of ASCII.
FetchedTxns(c, txns) ==
    LET txs == fetch_transactions(txns)
    IN  /\ alive /\ tasks[c].pc = "fetch" /\ tasks[c].cmd = "trxs"
        /\ Task(c, [tasks[c] EXCEPT
                      !.pc = "reply",
                      !.text = IF txs = <<>> THEN Text("no_trxs", <<>>)
                               ELSE Text("trxs", <<>>)])
        /\ last' = [op |-> "fetch_transactions", ret |-> "Ok", io |-> "none",
                    was |-> None, chat |-> c, txns |-> txns, txs |-> txs]
        /\ UNCHANGED <<alive, accounts, file, tmp, users, users_file, spc,
                       snap, cur, faults, lock, due, alerts, notice>>

\* Responses of NearBlocks: every list of up to MaxTxns transactions with
\* two hashes and timestamps of no, one and two digits, and a list of more
\* distinct hashes than fetch_transactions keeps, the oldest first.
MaxTxns == 3
TxHashes == {<<1>>, <<2>>}
Timestamps == {<<>>, <<9>>, <<1, 0>>, <<1, 1>>}
LongResponse ==
    [i \in 1..(TruncateLen + 2) |->
        Transaction(<<i>>, <<1 + (i \div 10), i % 10>>)]
Responses ==
    UNION {[1..m -> {Transaction(h, t) : h \in TxHashes, t \in Timestamps}] :
              m \in 0..MaxTxns}
        \cup {LongResponse}

\* One chat asks for the transactions of an account, again and again, and
\* NearBlocks answers with any of the responses.
NextTxns ==
    \/ \E order \in orderings(add_user(users, 1).users) :
          Receive(1, [name |-> "trxs", args |-> <<"a">>], order)
    \/ \E txns \in Responses : FetchedTxns(1, txns)
    \/ \E sent \in Sent : Reply(1, sent)

SpecTxns == Init /\ [][NextTxns]_vars

\* run() up to the for loop of the deployment broadcast: both stores are
\* loaded and get_all_users() gives the ids of the registry, each once, in
\* the order in which the HashSet yields them.
StartRun(order) ==
    /\ ~alive /\ notice.pc # "broadcast"
    /\ order \in orderings(load_users(users_file))
    /\ accounts' = load(file)
    /\ users' = load_users(users_file)
    /\ notice' = Broadcasting(order, <<>>)
    /\ last' = Step("run", "", "none", None)
    /\ UNCHANGED <<alive, file, tmp, users_file, spc, snap, cur, faults,
                   lock, tasks, due, alerts>>

\* The call of send_message of the broadcast for the next user_id.
Attempt(sent) == [user_id |-> Head(notice.users), sent |-> sent]

\* A for loop that a failed delivery ends.
NotifyUntilFailure(sent) ==
    /\ ~alive /\ notice.pc = "broadcast" /\ notice.users # <<>>
    /\ notice' = Broadcasting(IF sent = "Err" THEN <<>>
                              ELSE Tail(notice.users),
                              Append(notice.attempts, Attempt(sent)))
    /\ last' = Step("notify", sent, "none", None)
    /\ UNCHANGED <<alive, accounts, file, tmp, users, users_file, spc, snap,
                   cur, faults, lock, tasks, due, alerts>>

\* One turn of the for loop: send_message(ChatId(user_id), ..) returns, Ok
\* and Err are counted alike, and the loop goes on with the next id.
Notify(sent) ==
    /\ ~alive /\ notice.pc = "broadcast" /\ notice.users # <<>>
    /\ notice' = Broadcasting(Tail(notice.users),
                              Append(notice.attempts, Attempt(sent)))
    /\ last' = Step("notify", sent, "none", None)
    /\ UNCHANGED <<alive, accounts, file, tmp, users, users_file, spc, snap,
                   cur, faults, lock, tasks, due, alerts>>

\* The for loop is over: tokio::spawn of the monitoring loop, then
\* Command::repl.
SpawnTasks ==
    /\ ~alive /\ notice.pc = "broadcast" /\ notice.users = <<>>
    /\ alive' = TRUE
    /\ notice' = Spawned(notice.attempts)
    /\ last' = Step("spawn", "", "none", None)
    /\ UNCHANGED <<accounts, file, tmp, users, users_file, spc, snap, cur,
                   faults, lock, tasks, due, alerts>>

\* The process is about to start: no watchlist file, and a registry file of
\* any kind, with up to three subscribers.
InitStartup ==
    /\ lock = Nobody
    /\ tasks = [c \in Chats |-> Idle]
    /\ due = 1
    /\ alerts = [k \in Chats \X AccountIds |-> NoAlert]
    /\ notice = [pc |-> "off", users |-> <<>>, attempts |-> <<>>]
    /\ alive = FALSE
    /\ file = Missing
    /\ tmp = Missing
    /\ users_file \in UserFiles
    /\ accounts = <<>>
    /\ users = {}
    /\ spc = "tick"
    /\ snap = <<>>
    /\ cur = None
    /\ faults = 0
    /\ last = Step("kill", "", "none", None)

StartupKeys == {<<1, "a">>}

\* run() from its start: the broadcast, then the commands of one chat and
\* the monitoring loop.
NextStartup ==
    \/ \E order \in orderings(load_users(users_file)) : StartRun(order)
    \/ \E sent \in Sent : Notify(sent)
    \/ SpawnTasks
    \/ Commands(StartupKeys, NoFault, MaxWatched)
    \/ Loop(NoFault)

SpecStartup == InitStartup /\ [][NextStartup]_vars

\* The handlers of two chats as tasks, every command and every result of
\* a fetch, the file system never failing.
NextTasks ==
    \/ Handlers({1}, Inputs, MaxWatched)
    \/ StoreHandlers({2}, OtherInputs, MaxWatched)

SpecTasks == Init /\ [][NextTasks]_vars

(***************************************************************************)
(* What a step does to the Vec, stated on the entries themselves: these    *)
(* are the clauses of the store's contract that the properties below use.  *)
(***************************************************************************)
HasKey(accts, a, c) == \E i \in 1..Len(accts) : same_key(accts[i], a, c)

Unique(accts) ==
    \A i, j \in 1..Len(accts) :
        same_key(accts[i], accts[j].account_id, accts[j].chat_id) => i = j

\* The step wrote nothing: neither file changed and no save ran.
NothingWritten == file' = file /\ tmp' = tmp /\ last'.io = "none"

\* The step left monitored_accounts.json holding the whole new Vec.
WrittenThrough == file'.kind = "data" /\ load(file') = accounts'

\* The step appended (a, None, c) and changed nothing else.
Added(a, c) ==
    /\ Len(accounts') = Len(accounts) + 1
    /\ \A i \in 1..Len(accounts) : accounts'[i] = accounts[i]
    /\ accounts'[Len(accounts')].account_id = a
    /\ accounts'[Len(accounts')].chat_id = c
    /\ accounts'[Len(accounts')].last_balance = None

\* The step deleted the entries with key (a, c) and kept every other entry
\* as it was, in the order they had.
Removed(a, c) ==
    LET kept == {i \in 1..Len(accounts) : ~same_key(accounts[i], a, c)}
        rank(i) == Cardinality({j \in kept : j <= i})
    IN  /\ Len(accounts') = Cardinality(kept)
        /\ \A i \in kept : accounts'[rank(i)] = accounts[i]

\* The step gave one entry with key (old_id, c) the id new_id and no
\* balance, and changed nothing else.
Renamed(old_id, c, new_id) ==
    \E i \in 1..Len(accounts) :
        /\ same_key(accounts[i], old_id, c)
        /\ Len(accounts') = Len(accounts)
        /\ accounts'[i].account_id = new_id
        /\ accounts'[i].chat_id = c
        /\ accounts'[i].last_balance = None
        /\ \A j \in 1..Len(accounts) : j # i => accounts'[j] = accounts[j]

\* The step set the balance of the first entry with key (a, c) to v and
\* changed nothing else.
Updated(a, c, v) ==
    \E i \in 1..Len(accounts) :
        /\ same_key(accounts[i], a, c)
        /\ \A j \in 1..(i - 1) : ~same_key(accounts[j], a, c)
        /\ Len(accounts') = Len(accounts)
        /\ accounts'[i].account_id = a
        /\ accounts'[i].chat_id = c
        /\ accounts'[i].last_balance = Some(v)
        /\ \A j \in 1..Len(accounts) : j # i => accounts'[j] = accounts[j]

(***************************************************************************)
(* C1.  No two entries of the store share an (account_id, chat_id) key, in *)
(* every state that commands and the monitoring loop can reach; in         *)
(* particular after update_account(old, S, new) when (new, S) is there.    *)
(* The code does not keep this: update_account never looks for (new, S).   *)
(***************************************************************************)
NoDuplicateKeys == Unique(accounts)

(***************************************************************************)
(* C2.  Add is idempotent on the key.  An Add of (a, c) whose key is       *)
(* absent returns true, appends exactly the entry (a, None, c) and writes  *)
(* the whole new Vec to the file; one whose key is present returns false   *)
(* and changes neither the Vec nor any file.  Hence an Add never makes a   *)
(* store without duplicates hold one, and an Add of the key that the Add   *)
(* just before it inserted returns false.                                  *)
(***************************************************************************)
AddIsIdempotent ==
    [][\A c \in Chats, a \in AccountIds :
          last'.op = "add" /\ CmdAdd(c, a, last'.io) =>
            /\ IF HasKey(accounts, a, c)
               THEN /\ last'.ret = "false"
                    /\ accounts' = accounts
                    /\ NothingWritten
               ELSE /\ last'.ret = "true"
                    /\ Added(a, c)
                    /\ WrittenThrough
            /\ Unique(accounts) => Unique(accounts')
            /\ ( /\ last.op = "add" /\ last.ret = "true"
                 /\ same_key(accounts[Len(accounts)], a, c) )
               => last'.ret = "false"]_vars

\* An Add was answered "already being monitored" by a store of two entries.
AddTwiceReached ==
    last.op = "add" /\ last.ret = "false" /\ Len(accounts) >= 2

(***************************************************************************)
(* C3.  Remove is exact.  A Remove of (a, c) deletes the entries whose key *)
(* is (a, c) and leaves every entry of another account or another chat as  *)
(* it was (key, last_balance, relative order); it returns true iff the Vec *)
(* got shorter, writes the whole new Vec to the file when it returns true  *)
(* and writes nothing when it returns false.                               *)
(***************************************************************************)
RemoveIsExact ==
    [][\A c \in Chats, a \in AccountIds :
          last'.op = "remove" /\ CmdRemove(c, a, last'.io) =>
            /\ Removed(a, c)
            /\ ~HasKey(accounts', a, c)
            /\ last'.ret = "true" <=> HasKey(accounts, a, c)
            /\ last'.ret = "true" <=> Len(accounts') < Len(accounts)
            /\ last'.ret \in {"true", "false"}
            /\ last'.ret = "true" => WrittenThrough
            /\ last'.ret = "false" => NothingWritten]_vars

\* A Remove deleted an entry and left two others, one of them of the same
\* account for another chat or of the same chat for another account.
RemoveAmongOthersReached ==
    /\ last.op = "remove" /\ last.ret = "true"
    /\ Len(accounts) = 2
    /\ accounts[1].account_id # accounts[2].account_id
    /\ accounts[1].chat_id # accounts[2].chat_id

(***************************************************************************)
(* C4.  Rename.  An Edit (old, new) of chat c, when an entry with key      *)
(* (old, c) exists, returns Ok, gives exactly one such entry the id new    *)
(* and last_balance None, leaves every other entry as it was and writes    *)
(* the whole new Vec to the file; when no entry has the key it returns an  *)
(* error and changes neither the Vec nor any file.                         *)
(***************************************************************************)
RenameContract ==
    [][\A c \in Chats, old_id \in AccountIds, new_id \in AccountIds :
          last'.op = "edit" /\ CmdEdit(c, old_id, new_id, last'.io) =>
            IF HasKey(accounts, old_id, c)
            THEN /\ last'.ret = "Ok"
                 /\ Renamed(old_id, c, new_id)
                 /\ WrittenThrough
            ELSE /\ last'.ret = "Err"
                 /\ accounts' = accounts
                 /\ NothingWritten]_vars

\* An Edit renamed an entry that had a sampled balance, beside another
\* entry that keeps its own.
RenameReached ==
    /\ last.op = "edit" /\ last.ret = "Ok" /\ last.was # None
    /\ \E i \in 1..Len(accounts) : accounts[i].last_balance # None

(***************************************************************************)
(* C5.  update_balance(a, c, v) returns true iff an entry with key (a, c)  *)
(* exists.  When the first such entry has another last_balance than        *)
(* Some(v), it gets Some(v), nothing else changes and the whole new Vec is *)
(* written to the file; when it has Some(v) already, and when there is no  *)
(* such entry, neither the Vec nor any file changes.                       *)
(***************************************************************************)
UpdateBalanceContract ==
    [][\A a \in AccountIds, c \in Chats, v \in Balances :
          last'.op = "update_balance" /\ PollUpdate(a, c, v, last'.io) =>
            /\ last'.ret = "true" <=> HasKey(accounts, a, c)
            /\ last'.ret \in {"true", "false"}
            /\ IF HasKey(accounts, a, c) /\ Found(a, c) # Some(v)
               THEN Updated(a, c, v) /\ WrittenThrough
               ELSE accounts' = accounts /\ NothingWritten]_vars

\* update_balance found the entry with the very balance it was given: it
\* returned true and saved nothing.
UpdateUnchangedReached ==
    /\ last.op = "update_balance" /\ last.ret = "true" /\ last.io = "none"
    /\ last.was # None

(***************************************************************************)
(* C6.  In a step of a handler or of the monitoring loop that keeps the    *)
(* entries in their places (every call but a Remove), an entry's           *)
(* last_balance goes from Some(v) to None only when the step is a rename   *)
(* of that very entry; every other change of it is None -> Some(v) or      *)
(* Some(v) -> Some(v').  (What a Remove does to the entries it keeps is    *)
(* C3; a restart of the process is not a step of a handler or the loop.)   *)
(***************************************************************************)
BalanceResetOnlyByRename ==
    [][\A i \in 1..Len(accounts) :
          ( /\ last'.op # "remove"
            /\ i <= Len(accounts')
            /\ accounts[i].last_balance # None
            /\ accounts'[i].last_balance = None )
          => \E c \in Chats, old_id \in AccountIds, new_id \in AccountIds :
                /\ CmdEdit(c, old_id, new_id, last'.io)
                /\ same_key(accounts[i], old_id, c)
                /\ accounts'[i].account_id = new_id
                /\ accounts'[i].chat_id = c]_vars

\* A rename reset the sampled balance of one entry of three.
BalanceResetReached ==
    last.op = "edit" /\ last.was # None /\ Len(accounts) = 3

(***************************************************************************)
(* The calls that change the watchlist store.                              *)
(***************************************************************************)
StoreOps == {"add", "remove", "edit", "update_balance"}
Success == {"true", "Ok"}

(***************************************************************************)
(* C7 as stated.  Whenever a call that changes the watchlist store, or the *)
(* registration of a new chat id, returns success, the file of that store  *)
(* holds the store's whole in-memory state, also when the write of the     *)
(* temp file or the rename failed.  The code does not keep the last part:  *)
(* a failed save leaves the file behind the memory.                        *)
(***************************************************************************)
WriteThroughAlways ==
    /\ ( last.op \in StoreOps /\ last.io # "none" /\ last.ret \in Success )
       => file = Data(to_string_pretty(accounts)) /\ load(file) = accounts
    /\ ( last.op = "add_user" /\ last.ret = "true" )
       => users_file.kind = "data" /\ load_users(users_file) = users

(***************************************************************************)
(* C7 as amended.  Whenever a call that changes the watchlist store, or    *)
(* the registration of a new chat id, returns success and every step of    *)
(* its save succeeded, the file of that store holds the store's whole      *)
(* in-memory state at that moment.                                         *)
(***************************************************************************)
WriteThroughWhenSaved ==
    /\ ( last.op \in StoreOps /\ last.io = "ok" /\ last.ret \in Success )
       => file = Data(to_string_pretty(accounts)) /\ load(file) = accounts
    /\ ( last.op = "add_user" /\ last.io = "ok" /\ last.ret = "true" )
       => users_file.kind = "data" /\ load_users(users_file) = users

\* A save succeeded after an earlier one failed: the file left behind by the
\* failure holds the whole store again.
SavedAfterFailureReached ==
    /\ last.op \in StoreOps /\ last.io = "ok" /\ last.ret \in Success
    /\ faults > 0
    /\ Len(accounts) = 2

(***************************************************************************)
(* C8.  monitored_accounts.json never holds a partial text.  Every step,   *)
(* a kill at any step of save among them, leaves the file as it was or     *)
(* replaces it by the text of the whole new Vec, and replaces it only in a *)
(* save whose every step succeeded; a restart loads the Vec that the file  *)
(* holds, which is the one the last successful save wrote (the empty Vec   *)
(* when no save ever succeeded).                                           *)
(***************************************************************************)
AtomicWatchlistFile ==
    [][/\ file'.kind \in {"missing", "data"}
       /\ file' # file =>
            /\ last'.io = "ok" /\ alive'
            /\ file' = Data(to_string_pretty(accounts'))
       /\ last'.io \in KillOutcomes \cup {"none"} => file' = file
       /\ last'.op = "restart" =>
            /\ file.kind = "missing" => accounts' = <<>>
            /\ file.kind = "data" =>
                 to_string_pretty(accounts') = file.data]_vars

\* The process was killed between the write of the temp file and the rename
\* and has started again: the temp file holds the new Vec, the target file
\* and the memory hold the one before it.
RestartAfterKillReached ==
    /\ last.op = "restart"
    /\ tmp.kind = "data" /\ file.kind = "data"
    /\ accounts = load(file) /\ accounts # <<>>
    /\ load(tmp) # accounts

(***************************************************************************)
(* C9.  users.json is rewritten by write-temp-then-replace, so that a kill *)
(* at any step of UserManager::save leaves it holding the set before or    *)
(* the set after, never a partial text, and a restart loses no registered  *)
(* chat id.  The code does not keep this: UserManager::save writes         *)
(* straight onto users.json.                                               *)
(***************************************************************************)
SubscriberFileNeverPartial == users_file.kind \in {"missing", "data"}

(***************************************************************************)
(* C10.  When the write of the temp file fails, monitored_accounts.json is *)
(* not touched; when the rename fails, the temp file is removed and        *)
(* monitored_accounts.json is not touched.  In both cases the call keeps   *)
(* its change of the Vec and returns its normal success value, and the     *)
(* process goes on.                                                        *)
(***************************************************************************)
SaveFailureOutcomes ==
    [][( last'.op \in StoreOps /\ last'.io \in ErrOutcomes ) =>
         /\ file' = file
         /\ last'.io \in {"rename_err", "rename_remove_err"} =>
               tmp' = Missing
         /\ alive'
         /\ last'.ret \in Success
         /\ \A c \in Chats, a \in AccountIds :
              /\ CmdAdd(c, a, last'.io) => Added(a, c) /\ last'.ret = "true"
              /\ CmdRemove(c, a, last'.io) =>
                    Removed(a, c) /\ last'.ret = "true"
              /\ \A new_id \in AccountIds :
                    CmdEdit(c, a, new_id, last'.io) =>
                        Renamed(a, c, new_id) /\ last'.ret = "Ok"
              /\ \A v \in Balances :
                    PollUpdate(a, c, v, last'.io) =>
                        Updated(a, c, v) /\ last'.ret = "true"]_vars

(***************************************************************************)
(* C10 as amended.  When the write of the temp file fails,                 *)
(* monitored_accounts.json is not touched; when the rename fails,          *)
(* monitored_accounts.json is not touched and the removal of the temp file *)
(* is attempted, its result ignored: the temp file is gone when the        *)
(* removal succeeds and holds the text of the whole new Vec when it fails. *)
(* In every case the call keeps its change of the Vec and returns its      *)
(* normal success value, and the process goes on.                          *)
(***************************************************************************)
SaveFailureBestEffort ==
    [][( last'.op \in StoreOps /\ last'.io \in ErrOutcomes ) =>
         /\ file' = file
         /\ last'.io = "rename_err" => tmp' = Missing
         /\ last'.io = "rename_remove_err" =>
               tmp' = Data(to_string_pretty(accounts'))
         /\ alive'
         /\ last'.ret \in Success
         /\ \A c \in Chats, a \in AccountIds :
              /\ CmdAdd(c, a, last'.io) => Added(a, c) /\ last'.ret = "true"
              /\ CmdRemove(c, a, last'.io) =>
                    Removed(a, c) /\ last'.ret = "true"
              /\ \A new_id \in AccountIds :
                    CmdEdit(c, a, new_id, last'.io) =>
                        Renamed(a, c, new_id) /\ last'.ret = "Ok"
              /\ \A v \in Balances :
                    PollUpdate(a, c, v, last'.io) =>
                        Updated(a, c, v) /\ last'.ret = "true"]_vars

\* The rename of a save failed and so did the removal of the temp file: the
\* Add that ran it returned true, the Vec holds its entry, the target file
\* holds the Vec before it and the temp file holds the new one.
TempFileLeftReached ==
    /\ last.op = "add" /\ last.io = "rename_remove_err" /\ last.ret = "true"
    /\ alive
    /\ Len(accounts) = 2
    /\ file.kind = "data" /\ Len(load(file)) = 1
    /\ tmp = Data(to_string_pretty(accounts))

\* The rename of a save failed: the Add that ran it returned true, the Vec
\* holds its entry, the target file holds the Vec before it and no temp file
\* is left.
RenameFailureReached ==
    /\ last.op = "add" /\ last.io = "rename_err" /\ last.ret = "true"
    /\ alive
    /\ Len(accounts) = 2
    /\ file.kind = "data" /\ Len(load(file)) = 1
    /\ tmp = Missing

(***************************************************************************)
(* C11.  Persistence catches up after a failure.  A store call whose save  *)
(* fails, and one that does not save, leave monitored_accounts.json as it  *)
(* was, so that the file stays at the Vec of the last successful save; a   *)
(* store call whose save succeeds leaves the file holding the whole Vec,   *)
(* the changes of the calls whose own save had failed among them.          *)
(***************************************************************************)
CatchUpAfterFailure ==
    [][last'.op \in StoreOps =>
         /\ last'.io # "ok" => file' = file
         /\ last'.io = "ok" =>
              /\ file' = Data(to_string_pretty(accounts'))
              /\ load(file') = accounts']_vars

\* The save of a write-back succeeded while the file was behind the memory
\* by a change whose save had failed: file and memory are equal again.
CaughtUpReached ==
    /\ last.op = "update_balance" /\ last.io = "ok"
    /\ faults > 0
    /\ load(file) = accounts
    /\ Len(accounts) >= 1

(***************************************************************************)
(* C12.  load never fails the caller, for either store.  Once run() has    *)
(* loaded both stores the process runs; a missing file, a file that cannot *)
(* be read and a file whose content does not parse have given the empty    *)
(* store, and a well-formed file has given exactly the collection that it  *)
(* holds, entry for entry.                                                 *)
(***************************************************************************)
LoadNeverFails ==
    last.op = "restart" =>
        /\ alive
        /\ file.kind # "data" => accounts = <<>>
        /\ ( file.kind = "data" /\ ~parses(file.data) ) => accounts = <<>>
        /\ ( file.kind = "data" /\ parses(file.data) ) =>
              /\ Len(accounts) = Len(file.data)
              /\ to_string_pretty(accounts) = file.data
        /\ users_file.kind # "data" => users = {}
        /\ users_file.kind = "data" =>
              users = {users_file.data[i] : i \in 1..Len(users_file.data)}

\* run() has started on a watchlist file that does not parse and a
\* well-formed users.json: the watchlist is empty, the registry is loaded.
CorruptFileLoadedReached ==
    /\ last.op = "restart"
    /\ file = Data(TooBig) /\ accounts = <<>>
    /\ users_file.kind = "data" /\ Cardinality(users) = 2

(***************************************************************************)
(* C13.  Persistence round trip.  When the process starts again right      *)
(* after a call whose save succeeded, load gives the Vec that was saved,   *)
(* entry for entry and in the same order, with its entries without a       *)
(* balance and its entries whose balance is above 2^64.                    *)
(***************************************************************************)
SaveLoadRoundTrip ==
    [][( last'.op = "reload" /\ last.op \in StoreOps /\ last.io = "ok" ) =>
         /\ Len(accounts') = Len(accounts)
         /\ \A i \in 1..Len(accounts) :
              /\ accounts'[i].account_id = accounts[i].account_id
              /\ accounts'[i].last_balance = accounts[i].last_balance
              /\ accounts'[i].chat_id = accounts[i].chat_id]_vars

\* A Vec with an entry without a balance, an entry of a group chat and an
\* entry whose balance is above u64::MAX has been saved and loaded.
BigBalanceLoadedReached ==
    /\ last.op = "reload"
    /\ file = Data(to_string_pretty(accounts))
    /\ \E i, j, k \in 1..Len(accounts) :
          /\ accounts[i].last_balance = None
          /\ accounts[j].last_balance # None
          /\ ~leq(accounts[j].last_balance[1], U64Max)
          /\ accounts[k].chat_id < 0

(***************************************************************************)
(* The monitoring loop.                                                    *)
(***************************************************************************)
\* The step is the fetch of the first entry of the snapshot.
Fetched == last'.op = "fetch"
\* The step is the alert: send_message is called.
Alerted == last'.op = "alert"
\* The step is the write-back of the loop, and the process lived through it.
WroteBack == last'.op = "update_balance" /\ spc = "update" /\ alive'
\* The step leaves the store and its files as they are.
StoreUntouched == accounts' = accounts /\ file' = file /\ tmp' = tmp

(***************************************************************************)
(* C14.  Change detection.  When the fetch for an entry of the snapshot    *)
(* succeeds with v, the loop goes on to the alert and the write-back       *)
(* exactly when the last_balance of that entry is not Some(v), an entry    *)
(* never sampled included; otherwise it sends nothing and writes nothing   *)
(* and goes on to the next entry.  The alert is the call of send_message   *)
(* for the chat of the entry, with the entry's id, its old balance and v;  *)
(* the write-back is update_balance(account_id, chat_id, v).               *)
(***************************************************************************)
ChangeDetection ==
    [][/\ ( Fetched /\ last'.ret = "Ok" ) =>
            /\ StoreUntouched
            /\ last'.got \in {Some(v) : v \in Balances}
            /\ IF snap[1].last_balance # last'.got
               THEN spc' = "send" /\ snap' = snap /\ cur' = last'.got
               ELSE /\ spc' \in {"fetch", "tick"}
                    /\ snap' = Tail(snap)
                    /\ cur' = None
       /\ ( spc = "send" /\ spc' # "send" /\ alive' ) =>
            /\ Alerted
            /\ last'.msg = [to |-> snap[1].chat_id,
                            account_id |-> snap[1].account_id,
                            old |-> snap[1].last_balance, new |-> cur[1]]
            /\ spc' = "update" /\ snap' = snap /\ cur' = cur
       /\ ( spc = "update" /\ spc' # "update" /\ alive' ) =>
            /\ WroteBack
            /\ accounts' = update_balance(accounts, snap[1].account_id,
                                          snap[1].chat_id, cur[1]).accounts
       /\ ( Alerted \/ WroteBack ) =>
            /\ cur # None
            /\ snap[1].last_balance # cur]_vars

\* A fetch has returned another balance than the one sampled before: the
\* loop is about to alert the chat.
ChangeDetectedReached ==
    /\ spc = "send" /\ last.op = "fetch"
    /\ snap[1].last_balance # None
    /\ snap[1].last_balance # cur

(***************************************************************************)
(* C15.  No repeated alert for an unchanged balance.  Once a cycle has     *)
(* written v back for the entry (A, S), every later cycle that fetches v   *)
(* for A alerts nobody and writes nothing for that entry, as long as no    *)
(* command touches (A, S).  Step by step: the write-back that returns true *)
(* leaves every stored entry with the key (A, S) holding Some(v); no other *)
(* step of the loop changes the store; each later snapshot is the store as *)
(* it is; and a fetch of v for a snapshot entry holding Some(v) goes on to *)
(* the next entry without an alert or a write.                             *)
(***************************************************************************)
NoRepeatedAlert ==
    [][/\ ( WroteBack /\ last'.ret = "true" ) =>
            \A i \in 1..Len(accounts') :
                same_key(accounts'[i], snap[1].account_id, snap[1].chat_id)
                    => accounts'[i].last_balance = cur
       /\ ( last'.op \in {"snapshot", "fetch", "alert"} ) => StoreUntouched
       /\ ( last'.op = "snapshot" ) => snap' = accounts
       /\ ( Fetched /\ last'.got # None /\ snap[1].last_balance = last'.got )
            => spc' \in {"fetch", "tick"} /\ snap' = Tail(snap)]_vars

\* The step is an Edit whose update_account succeeded.
RenamedTo(step) == step.op = "edit" /\ step.ret = "Ok"

(***************************************************************************)
(* C16, as stated.  Rename resets sampling: after a rename to (B, S) the   *)
(* entry stays without a balance until the first later cycle, the one      *)
(* whose snapshot holds (B, S), fetches a value for it.  In particular the *)
(* write-back of a cycle whose snapshot was taken before the rename, when  *)
(* it is the step right after the rename, gives the renamed entry no       *)
(* balance.  Stated for stores without a duplicated key and a rename to    *)
(* another id.                                                             *)
(***************************************************************************)
RenameResetsUntilNextCycle ==
    [][( /\ RenamedTo(last) /\ last.old # last.key[2]
         /\ Unique(accounts)
         /\ WroteBack ) =>
         \A i \in 1..Len(accounts) :
            ( /\ same_key(accounts[i], last.key[2], last.key[1])
              /\ accounts[i].last_balance = None )
                => /\ i <= Len(accounts')
                   /\ accounts'[i].last_balance = None]_vars

(***************************************************************************)
(* C16, amended.  A rename that succeeds leaves the renamed entry with the *)
(* new id, the same chat and no balance.  Every fetch that succeeds with v *)
(* for a snapshot entry without a balance goes on to the alert, whatever v *)
(* is; the alert goes to the chat of the entry and shows the old balance   *)
(* as unknown; the write-back that follows sets the first stored entry     *)
(* with the key of the snapshot entry, when there is one, to Some(v).      *)
(***************************************************************************)
RenameResetsSampling ==
    [][/\ RenamedTo(last') =>
            LET i == find(accounts, last'.old, last'.key[1])
            IN  /\ i # 0
                /\ Len(accounts') = Len(accounts)
                /\ accounts'[i] =
                       MonitoredAccount(last'.key[2], None, last'.key[1])
       /\ ( Fetched /\ last'.got # None /\ snap[1].last_balance = None ) =>
            spc' = "send" /\ cur' = last'.got /\ snap' = snap
       /\ ( Alerted /\ snap[1].last_balance = None ) =>
            /\ last'.msg.to = snap[1].chat_id
            /\ last'.msg.account_id = snap[1].account_id
            /\ last'.msg.old = None
            /\ last'.msg.new = cur[1]
            /\ spc' = "update" /\ cur' = cur /\ snap' = snap
       /\ ( WroteBack /\ snap[1].last_balance = None ) =>
            LET i == find(accounts, snap[1].account_id, snap[1].chat_id)
            IN  i # 0 => /\ Len(accounts') = Len(accounts)
                         /\ accounts'[i].last_balance = cur]_vars

\* The chat has been alerted, with the old balance unknown, of the balance
\* of an id that an entry can only have by a rename, and the value is being
\* written to the renamed entry.
RenamedEntrySampledReached ==
    /\ last.op = "alert" /\ spc = "update"
    /\ last.msg.account_id = "b" /\ last.msg.old = None
    /\ HasKey(accounts, "b", last.msg.to)
    /\ Found("b", last.msg.to) = None

(***************************************************************************)
(* C17.  Skip-and-continue.  A fetch that fails leaves the store and its   *)
(* files as they are and sends no alert; the loop goes on with the rest of *)
(* the snapshot, so that every entry of the snapshot is fetched in its     *)
(* turn: the snapshot only ever loses its first entry, once the work on    *)
(* that entry is over, and the cycle ends when none is left.               *)
(***************************************************************************)
SkipAndContinue ==
    [][/\ ( Fetched /\ last'.ret = "Err" ) =>
            /\ last'.got = None
            /\ StoreUntouched
            /\ spc' # "send" /\ spc' # "update"
            /\ snap' = Tail(snap)
            /\ spc' = IF Tail(snap) # <<>> THEN "fetch" ELSE "tick"
       /\ ( alive' /\ spc # "tick" /\ snap' # snap ) =>
            /\ snap' = Tail(snap)
            /\ last'.op \in {"fetch", "update_balance"}
       /\ ( alive' /\ spc' = "fetch" ) => snap' # <<>>
       /\ ( alive' /\ spc # "tick" /\ spc' = "tick" ) => snap' = <<>>]_vars

\* A fetch has failed and the loop is about to fetch the next entry of the
\* snapshot, the store holding what it held.
FetchFailedAndWentOnReached ==
    /\ last.op = "fetch" /\ last.ret = "Err"
    /\ spc = "fetch" /\ snap # <<>>
    /\ Len(accounts) = 2
    /\ accounts[1].last_balance # None

(***************************************************************************)
(* C18.  Per-subscriber handling.  Each entry of the snapshot is handled   *)
(* for its own chat: a fetch that succeeds for an entry without a balance  *)
(* goes on to an alert of the chat of that entry, and the write-back that  *)
(* follows gives the fetched value to the entry with the key of that       *)
(* entry and leaves every entry of another chat as it is, an entry of the  *)
(* same account included.                                                  *)
(***************************************************************************)
PerSubscriberHandling ==
    [][/\ ( Fetched /\ last'.ret = "Ok" /\ snap[1].last_balance = None ) =>
            spc' = "send" /\ snap' = snap
       /\ Alerted =>
            /\ last'.msg.to = snap[1].chat_id
            /\ last'.msg.account_id = snap[1].account_id
            /\ last'.msg.new = cur[1]
       /\ WroteBack =>
            /\ Len(accounts') = Len(accounts)
            /\ \A i \in 1..Len(accounts) :
                 accounts[i].chat_id # snap[1].chat_id
                     => accounts'[i] = accounts[i]
            /\ LET i == find(accounts, snap[1].account_id, snap[1].chat_id)
               IN  i # 0 => accounts'[i].last_balance = cur]_vars

\* Two chats watch one account; the write-back for one of them has just
\* given its entry a balance, and the entry of the other chat holds another
\* balance.
TwoChatsOneAccountReached ==
    /\ last.op = "update_balance" /\ last.ret = "true"
    /\ Len(accounts) = 2
    /\ accounts[1].account_id = accounts[2].account_id
    /\ accounts[1].chat_id # accounts[2].chat_id
    /\ accounts[1].last_balance # None
    /\ accounts[2].last_balance # None
    /\ accounts[1].last_balance # accounts[2].last_balance

(***************************************************************************)
(* C19.  Notify-then-update ordering.  For a change that was detected the  *)
(* loop first calls send_message and then, whether that call returned Ok   *)
(* or Err, calls update_balance with the key of the snapshot entry and the *)
(* fetched value: the alert is the only way to the write-back, the alert   *)
(* always leads to it, and after the write-back the first stored entry     *)
(* with the key, when there is one, holds the fetched value.               *)
(***************************************************************************)
NotifyThenUpdate ==
    [][/\ Alerted =>
            /\ spc = "send" /\ cur # None
            /\ last'.ret \in Sent
            /\ spc' = "update" /\ snap' = snap /\ cur' = cur
            /\ StoreUntouched
       /\ ( alive' /\ spc # "update" /\ spc' = "update" ) => Alerted
       /\ ( alive' /\ spc = "update" /\ spc' # "update" ) =>
            /\ WroteBack
            /\ last'.ret =
                 update_balance(accounts, snap[1].account_id,
                                snap[1].chat_id, cur[1]).ret
            /\ LET i == find(accounts, snap[1].account_id, snap[1].chat_id)
               IN  IF i # 0
                   THEN /\ last'.ret = "true" <=> accounts[i].last_balance # cur
                        /\ accounts' =
                             [accounts EXCEPT ![i].last_balance = cur]
                   ELSE last'.ret = "false" /\ accounts' = accounts]_vars

\* send_message has failed and the loop is about to write the fetched value
\* to an entry that holds an older one.
UpdateAfterFailedAlertReached ==
    /\ last.op = "alert" /\ last.ret = "Err"
    /\ spc = "update"
    /\ Found(snap[1].account_id, snap[1].chat_id) # None
    /\ Found(snap[1].account_id, snap[1].chat_id) # cur

(***************************************************************************)
(* C20.  add_user(id), in a process that lives through the call, returns   *)
(* true exactly when the id was not in the set; the set is then the old    *)
(* set with the id.  It calls save exactly when it returns true, and a     *)
(* save whose write succeeds leaves users.json holding the new set; when   *)
(* it returns false the set and the file are what they were and nothing is *)
(* written.  While the process lives the set only grows, and only by       *)
(* add_user: an id that is in the set gets false from every later call.    *)
(***************************************************************************)
RegisterContract ==
    [][/\ ( last'.op = "add_user" /\ alive' ) =>
            /\ last'.ret = "true" <=> last'.id \notin users
            /\ last'.ret = "false" <=> last'.id \in users
            /\ users' = users \cup {last'.id}
            /\ last'.ret = "false" =>
                 /\ users' = users
                 /\ users_file' = users_file
                 /\ last'.io = "none"
            /\ last'.ret = "true" =>
                 /\ last'.io \in UserSaveOutcomes \ KillOutcomes
                 /\ last'.io = "ok" =>
                      /\ users_file'.kind = "data"
                      /\ Len(users_file'.data) = Cardinality(users')
                      /\ users_from_str(users_file'.data) = users'
       /\ ( alive /\ alive' ) =>
            /\ users \subseteq users'
            /\ users' # users => last'.op = "add_user"]_vars

\* An id that is in the set has been registered again, next to another id:
\* the call returned false and wrote nothing.
RegisteredAgainReached ==
    /\ alive
    /\ last.op = "add_user" /\ last.ret = "false" /\ last.io = "none"
    /\ last.id \in users
    /\ Cardinality(users) = 2
    /\ users_file.kind = "data"
    /\ users_from_str(users_file.data) = users

(***************************************************************************)
(* The handlers as tasks.                                                  *)
(***************************************************************************)
\* The step is a step of the handler of chat c.
StepOf(c) == tasks'[c] # tasks[c]
\* The handler of chat c returns (or ends) with this step.
Ends(c) == tasks[c].pc # "idle" /\ tasks'[c].pc = "idle"
\* The step is the send_message of the reply of chat c.
Replies(c) == last'.op = "reply" /\ last'.chat = c

(***************************************************************************)
(* C21.  The subscriber set is append-only while the process runs.  No     *)
(* step takes an id out of the set; the set changes only when a command    *)
(* arrives, and then by the id of its chat; and whenever a command of a    *)
(* chat is being handled, whatever the command and whatever becomes of it, *)
(* the id of the chat is in the set.                                       *)
(***************************************************************************)
SubscribersAppendOnly ==
    [][/\ users \subseteq users'
       /\ users' # users =>
            /\ last'.op = "receive"
            /\ users' = users \cup {last'.chat}
       /\ last'.op = "receive" =>
            /\ last'.chat \in users'
            /\ last'.ret = "true" <=> last'.chat \notin users
       /\ \A c \in Chats : tasks'[c].pc # "idle" => c \in users']_vars

\* Two chats are in the set, and the one that came first is being told
\* that its /edit was malformed.
TwoSubscribersReached ==
    /\ users = {1, 2}
    /\ last.op = "receive" /\ last.chat = 1 /\ last.ret = "false"
    /\ tasks[1].pc = "reply" /\ tasks[1].text.kind = "usage_edit"

\* The entries of chat c, in the order of the Vec.
OwnEntries(accts, c) == SelectSeq(accts, LAMBDA e : e.chat_id = c)
\* Their account ids.
OwnIds(accts, c) ==
    [i \in 1..Len(OwnEntries(accts, c)) |-> OwnEntries(accts, c)[i].account_id]

(***************************************************************************)
(* C22.  Subscriber isolation.  A step of the handler of chat S leaves the *)
(* entries of every other chat as they are, in number, content and order.  *)
(* The reply to /list names exactly the account ids of the entries of S,   *)
(* in the order of the store, and says that nothing is monitored exactly   *)
(* when S has no entry.  What a store command does to the entries of S and *)
(* what it replies are what the same command does and replies on a store   *)
(* that holds the entries of S alone: runs that differ in the commands and *)
(* entries of other chats only give S the same replies.                    *)
(***************************************************************************)
SubscriberIsolation ==
    [][\A c \in Chats : StepOf(c) =>
         /\ \A c2 \in Chats \ {c} :
               OwnEntries(accounts', c2) = OwnEntries(accounts, c2)
         /\ ( tasks[c].pc = "wait" /\ tasks[c].cmd = "list" ) =>
               /\ accounts' = accounts
               /\ tasks'[c].text =
                    IF OwnIds(accounts, c) = <<>>
                    THEN Text("list_empty", <<>>)
                    ELSE Text("list", OwnIds(accounts, c))
         /\ tasks[c].pc = "wait" =>
               LET own == OwnEntries(accounts, c)
                   r == store_call(own, tasks[c].cmd, tasks[c].args, c)
               IN  /\ OwnEntries(accounts', c) = r.accounts
                   /\ last'.ret = r.ret
                   /\ tasks'[c].text =
                        store_text(own, tasks[c].cmd, r.ret, c)
         /\ tasks[c].pc # "wait" => accounts' = accounts]_vars

\* A chat is about to be sent the list of its two entries while the store
\* holds an entry of another chat for one of the accounts.
ListAmongOthersReached ==
    /\ tasks[1].pc = "reply" /\ tasks[1].text.kind = "list"
    /\ Len(tasks[1].text.ids) = 2
    /\ \E i \in 1..Len(accounts) :
          /\ accounts[i].chat_id = 2
          /\ accounts[i].account_id = tasks[1].text.ids[1]

(***************************************************************************)
(* C23.  Every command that is handled gets exactly one reply attempt: the *)
(* handler of a chat ends only with the send_message of its reply, and it  *)
(* calls send_message for a reply nowhere else.                            *)
(***************************************************************************)
ExactlyOneReply ==
    [][\A c \in Chats :
         /\ Ends(c) => Replies(c) /\ tasks[c].text # NoText
         /\ Replies(c) => Ends(c)]_vars

(***************************************************************************)
(* C24.  Snapshot isolation of a cycle.  The snapshot is the store as it   *)
(* is when it is taken; from then on the cycle works through that copy     *)
(* from its first entry on and nothing joins it: a command leaves the      *)
(* snapshot as it is, so an entry added during the cycle is not fetched or *)
(* alerted in it, and being in the store it is in the next snapshot.       *)
(***************************************************************************)
SnapshotIsolation ==
    [][/\ last'.op = "snapshot" =>
            /\ spc = "tick"
            /\ snap' = accounts
            /\ accounts' = accounts
       /\ last'.op # "snapshot" =>
            \/ snap' = snap
            \/ snap # <<>> /\ snap' = Tail(snap)
       /\ last'.op \in {"add", "remove", "edit"} =>
            snap' = snap /\ spc' = spc /\ cur' = cur
       /\ ( Fetched \/ Alerted \/ WroteBack ) =>
            /\ snap # <<>>
            /\ spc \in {"fetch", "send", "update"}
       /\ Alerted => last'.msg.account_id = snap[1].account_id]_vars

\* A chat has added an account while a cycle is at work: the store holds
\* the entry and the snapshot of the cycle does not.
AddedDuringCycleReached ==
    /\ last.op = "add" /\ last.ret = "true"
    /\ spc = "fetch" /\ snap # <<>>
    /\ \E i \in 1..Len(accounts) :
          ~HasKey(snap, accounts[i].account_id, accounts[i].chat_id)

(***************************************************************************)
(* The loop and the handlers as tasks around the Mutex.                    *)
(***************************************************************************)
\* The step is a step of the monitoring loop.
LoopStep == spc' # spc \/ snap' # snap \/ cur' # cur

(***************************************************************************)
(* C25.  The loop holds the Mutex of the watchlist only within the step    *)
(* that copies the snapshot and, for each entry apart, from the call of    *)
(* update_balance to the end of its save: it does not hold it while it     *)
(* waits for a tick, for a fetch or for send_message, nor from one entry   *)
(* to the next, so that between any two entries the Mutex is free for a    *)
(* handler unless another handler has it.                                  *)
(***************************************************************************)
LoopLocksBriefly ==
    [][/\ lock' = Monitor => spc' = "save"
       /\ spc' \in {"tick", "lock", "fetch", "send", "update"}
            => lock' # Monitor
       /\ last'.op = "snapshot" => lock = Nobody /\ lock' = Nobody
       /\ ( Fetched \/ Alerted ) =>
            /\ lock # Monitor
            /\ lock' = lock
       /\ ( LoopStep /\ lock' # lock ) =>
            \/ lock = Nobody /\ lock' = Monitor /\ spc = "update"
            \/ lock = Monitor /\ lock' = Nobody /\ spc = "save"]_vars

\* A handler has taken the Mutex between the two entries of a cycle: the
\* first entry has got its balance and the second is yet to be fetched.
HandlerBetweenEntriesReached ==
    /\ last.op = "enter" /\ lock = Handler(1)
    /\ spc = "fetch" /\ Len(snap) = 1
    /\ \E i \in 1..Len(accounts) :
          /\ accounts[i].last_balance # None
          /\ accounts[i].account_id # snap[1].account_id

(***************************************************************************)
(* C26.  No network call is made while the Mutex of the watchlist is held: *)
(* a handler that is waiting for a fetch or for the send_message of its    *)
(* reply does not hold it, and the loop does not hold it while it waits    *)
(* for a fetch or for the send_message of an alert.                        *)
(***************************************************************************)
NoNetworkUnderLock ==
    /\ \A c \in Chats :
          tasks[c].pc \in {"fetch", "reply"} => lock # Handler(c)
    /\ spc \in {"fetch", "send"} => lock # Monitor

(***************************************************************************)
(* C27.  Store operations are linearizable.  The store is changed, and     *)
(* copied for the snapshot, only by a task that finds the Mutex free, and  *)
(* the change is that of its one call on the store as it is; from there to *)
(* the end of its save the task holds the Mutex, nobody else takes it,     *)
(* and the store stays as the call left it; the files are written only by  *)
(* the save of the holder, which leaves the file holding the store as it   *)
(* is in memory.                                                           *)
(***************************************************************************)
StoreIsLinearizable ==
    [][/\ accounts' # accounts =>
            /\ lock = Nobody
            /\ last'.op \in {"enter", "update_balance"}
       /\ last'.op = "enter" =>
            /\ lock = Nobody
            /\ accounts' =
                 store_call(accounts, tasks[last'.chat].cmd,
                            tasks[last'.chat].args, last'.chat).accounts
            /\ tasks'[last'.chat].pc = "save" => lock' = Handler(last'.chat)
       /\ last'.op = "update_balance" =>
            /\ lock = Nobody
            /\ accounts' =
                 update_balance(accounts, snap[1].account_id,
                                snap[1].chat_id, cur[1]).accounts
            /\ spc' = "save" => lock' = Monitor
       /\ last'.op = "snapshot" =>
            /\ lock = Nobody
            /\ snap' = accounts
       /\ ( file' # file \/ tmp' # tmp ) =>
            /\ lock # Nobody
            /\ IF LoopStep THEN lock = Monitor /\ spc = "save"
               ELSE /\ last'.op = "saved"
                    /\ lock = Handler(last'.chat)
                    /\ tasks[last'.chat].pc = "save"
            /\ accounts' = accounts
            /\ file' = Data(to_string_pretty(accounts))
            /\ tmp' = Missing
       /\ ( lock # Nobody /\ lock' = lock ) => accounts' = accounts
       /\ lock' # lock => lock = Nobody \/ lock' = Nobody]_vars

\* The handler of chat 1 has saved its rename and still holds the Mutex,
\* while the handler of chat 2, with an Add, and the loop, with a balance
\* it has fetched, both wait for it.
RenameSavedWhileOthersWaitReached ==
    /\ last.op = "saved" /\ last.chat = 1 /\ lock = Handler(1)
    /\ tasks[1].cmd = "edit" /\ tasks[1].pc = "reply"
    /\ tasks[2].cmd = "add" /\ tasks[2].pc = "wait"
    /\ spc = "update" /\ cur # None
    /\ file = Data(to_string_pretty(accounts))
    /\ \E i \in 1..Len(accounts) :
          accounts[i].account_id = "b" /\ accounts[i].chat_id = 1

\* A handler has saved its change while the loop, with a balance it has
\* fetched, waits for the Mutex that the handler still holds.
SavedWhileLoopWaitsReached ==
    /\ last.op = "saved" /\ lock = Handler(1)
    /\ spc = "update" /\ cur # None
    /\ file = Data(to_string_pretty(accounts))
    /\ Len(accounts) = 2

(***************************************************************************)
(* C28.  The scheduler has no terminal state.  Whatever the fetches, the   *)
(* deliveries and the write-backs of a cycle give, the loop is again and   *)
(* again waiting for the tick, and, every external call returning, it      *)
(* takes a tick and starts a new cycle infinitely often.                   *)
(***************************************************************************)
NoTerminalState ==
    /\ []<>(spc = "tick")
    /\ []<><<TakeTick>>_vars

\* The loop waits for the next tick after a write-back that found no entry
\* (the entry was removed during the cycle), the alert before it having
\* failed.
BackAtTickAfterNotFoundReached ==
    /\ spc = "tick" /\ snap = <<>>
    /\ last.op = "update_balance" /\ last.ret = "false"
    /\ accounts = <<>>

(***************************************************************************)
(* C29.  Poll cycles never overlap and no tick is lost.  A tick is taken   *)
(* only by the loop waiting for it, with nothing left of the cycle before, *)
(* and the snapshot is taken only by the loop that took a tick and has no  *)
(* entry left to process.  Taking a tick takes one of the ticks that are   *)
(* ready and nothing else takes any, so the ticks that came during a       *)
(* cycle are still there when it ends, and the loop that waits with a tick *)
(* ready can take it at once.                                              *)
(***************************************************************************)
CyclesInSequence ==
    /\ [](( spc = "tick" /\ due > 0 ) => ENABLED TakeTick)
    /\ [][/\ last'.op = "tick" =>
               /\ spc = "tick" /\ snap = <<>> /\ cur = None
               /\ spc' = "lock"
               /\ due > 0 /\ due' = due - 1
          /\ last'.op = "snapshot" =>
               /\ spc = "lock" /\ snap = <<>> /\ cur = None
          /\ snap' # snap =>
               \/ snap = <<>> /\ spc = "lock"
               \/ snap # <<>> /\ snap' = Tail(snap)
          /\ due' < due => spc = "tick" /\ spc' = "lock" /\ due' = due - 1
          /\ due' > due => due' = due + 1 /\ UNCHANGED <<spc, snap, cur>>]_vars

\* A cycle that wrote a balance back has come to its end and the loop has
\* taken the next tick, while another tick that came in the meantime is
\* still ready for the cycle after it.
TickKeptAfterOverrunReached ==
    /\ last.op = "tick" /\ spc = "lock"
    /\ due > 0
    /\ \E i \in 1..Len(accounts) : accounts[i].last_balance # None

(***************************************************************************)
(* C30.  In each poll cycle every distinct account_id of the snapshot is   *)
(* queried exactly once, however many subscribers watch it: the entry that *)
(* a fetch is made for is the last of its account_id in what is left of    *)
(* the snapshot, so no second fetch of the cycle asks for the same         *)
(* account.                                                                *)
(***************************************************************************)
OncePerAccount ==
    [][Fetched =>
          \A i \in 2..Len(snap) : snap[i].account_id # snap[1].account_id]_vars

(***************************************************************************)
(* C31.  Eventual sampling.  Under fair scheduling, with the fetch of its  *)
(* account succeeding again and again, an entry that stays in the store    *)
(* with its account_id (no command removes or renames it any more)         *)
(* eventually holds a last_balance Some(v), and keeps one from then on.    *)
(***************************************************************************)
EventualSampling ==
    \A i \in 1..MaxWatched, a \in AccountIds :
        <>[](/\ Len(accounts) >= i /\ accounts[i].account_id = a
             /\ last.op \notin {"remove", "edit"})
            => <>[](Len(accounts) >= i /\ accounts[i].last_balance # None)

(***************************************************************************)
(* C32.  From an empty store, no stored entry has an empty account_id.     *)
(* Add with an empty account id replies "Please provide an account ID."    *)
(* and leaves the store and its file alone; Edit goes to the store only    *)
(* with exactly two ids, both non-empty; the store is called by Add only   *)
(* with a non-empty id.                                                    *)
(***************************************************************************)
NoEmptyAccountId ==
    /\ [](\A i \in 1..Len(accounts) : accounts[i].account_id # "")
    /\ [][\A c \in Chats :
            /\ ( last'.op = "receive" /\ last'.chat = c
                 /\ tasks'[c].cmd = "add" /\ id_of(tasks'[c].args) = "" ) =>
                    /\ tasks'[c].pc = "reply"
                    /\ tasks'[c].text = Text("provide_id", <<>>)
                    /\ StoreUntouched
            /\ ( last'.op = "receive" /\ last'.chat = c
                 /\ tasks'[c].cmd = "edit" /\ Len(tasks'[c].args) # 2 ) =>
                    /\ tasks'[c].pc = "reply"
                    /\ tasks'[c].text = Text("usage_edit", <<>>)
                    /\ StoreUntouched
            /\ ( last'.op = "enter" /\ last'.chat = c
                 /\ tasks[c].cmd = "add" ) => id_of(tasks[c].args) # ""
            /\ ( last'.op = "enter" /\ last'.chat = c
                 /\ tasks[c].cmd = "edit" ) =>
                    /\ Len(tasks[c].args) = 2
                    /\ tasks[c].args[1] # "" /\ tasks[c].args[2] # ""
            /\ ( tasks[c].pc = "reply" /\ tasks[c].cmd \in {"add", "edit"}
                 /\ tasks[c].text.kind \in {"provide_id", "usage_edit"}
                 /\ StepOf(c) ) => StoreUntouched]_vars

\* An Add with no account id is about to be answered while the store holds
\* an entry, and the store has no entry for it.
EmptyAddRejectedReached ==
    /\ tasks[1].cmd = "add" /\ tasks[1].args = <<>>
    /\ tasks[1].pc = "reply"
    /\ accounts # <<>>
    /\ \A i \in 1..Len(accounts) : accounts[i].account_id # ""

(***************************************************************************)
(* C33, as stated.  Stale write-back is harmless: when the entry of the    *)
(* snapshot was removed or renamed by a command before the write-back for  *)
(* it runs, the write-back changes no entry and writes nothing.  An entry  *)
(* loses its balance only by being renamed or by being removed and added   *)
(* again, so, the keys being unique, a snapshot entry with a balance whose *)
(* key is now that of a stored entry without one was removed or renamed.   *)
(***************************************************************************)
StaleWriteBackChangesNothing ==
    [][( /\ WroteBack
         /\ Unique(accounts)
         /\ snap[1].last_balance # None
         /\ HasKey(accounts, snap[1].account_id, snap[1].chat_id)
         /\ Found(snap[1].account_id, snap[1].chat_id) = None ) =>
            /\ accounts' = accounts
            /\ NothingWritten]_vars

(***************************************************************************)
(* C33, amended.  The write-back looks for its entry by key in the store   *)
(* as it is when it runs.  When no stored entry has the key of the         *)
(* snapshot entry, it returns false, changes no entry and writes nothing;  *)
(* it never creates an entry.  When one has, it changes at most the        *)
(* last_balance of the first entry with the key, be it the snapshot's      *)
(* entry or one that a later add or rename gave the key.  It never changes *)
(* the number of entries or the key of an entry.                           *)
(***************************************************************************)
WriteBackByKey ==
    [][WroteBack =>
          LET i == find(accounts, snap[1].account_id, snap[1].chat_id)
          IN  /\ i = 0 => /\ accounts' = accounts
                          /\ NothingWritten
                          /\ last'.ret = "false"
              /\ Len(accounts') = Len(accounts)
              /\ \A j \in 1..Len(accounts) :
                    /\ accounts'[j].account_id = accounts[j].account_id
                    /\ accounts'[j].chat_id = accounts[j].chat_id
                    /\ j # i => accounts'[j] = accounts[j]
              /\ i # 0 => accounts'[i].last_balance = cur]_vars

\* The write-back of a cycle has found no entry, its entry having been
\* removed after the snapshot, and has left the entry of the other chat and
\* the file as they were.
StaleWriteBackSkippedReached ==
    /\ last.op = "update_balance" /\ last.ret = "false" /\ last.io = "none"
    /\ accounts # <<>>
    /\ file = Data(to_string_pretty(accounts))

(***************************************************************************)
(* C34.  Balance provenance.  An entry comes to hold Some(v) only by the   *)
(* write-back of the loop, for an entry whose account_id is that of the    *)
(* snapshot entry the loop is at, with the value the loop holds; the loop  *)
(* holds a value only from the fetch it made for the account of that       *)
(* snapshot entry, and stays at the entry as long as it holds the value.   *)
(* Every other step leaves an entry with a balance as it was, or drops it, *)
(* or takes its balance away.  So a balance in the store was fetched for   *)
(* the account_id of its entry.                                            *)
(***************************************************************************)
BalanceProvenance ==
    [][/\ \A i \in 1..Len(accounts') :
            accounts'[i].last_balance # None =>
                \/ \E j \in 1..Len(accounts) : accounts[j] = accounts'[i]
                \/ /\ WroteBack
                   /\ accounts'[i].account_id = snap[1].account_id
                   /\ accounts'[i].chat_id = snap[1].chat_id
                   /\ accounts'[i].last_balance = cur
       /\ ( cur' # None /\ cur' # cur ) =>
            /\ Fetched /\ last'.got = cur'
            /\ cur = None
            /\ snap' = snap
       /\ ( cur # None /\ cur' = cur ) => snap' = snap
       /\ ( cur # None ) => snap # <<>>]_vars

\* An entry that was renamed to b and an entry of a hold the balances that
\* the loop fetched for b and for a, which differ.
TwoAccountsSampledReached ==
    /\ Len(accounts) = 2
    /\ accounts[1].account_id = "b" /\ accounts[2].account_id = "a"
    /\ accounts[1].last_balance # None /\ accounts[2].last_balance # None
    /\ accounts[1].last_balance # accounts[2].last_balance
    /\ last.op = "update_balance" /\ last.ret = "true"

\* Exactly one entry of accts has the key k.
OneEntry(accts, k) ==
    Cardinality({i \in 1..Len(accts) : Key(accts[i]) = k}) = 1

(***************************************************************************)
(* C35, as stated.  Notification chain continuity: for a key that one      *)
(* entry holds and that no command has touched since, an alert shows as    *)
(* old the value that the alert before it gave as new, and another value   *)
(* as new; the first alert after the add or the rename that gave the entry *)
(* its key shows the old value as unknown.                                 *)
(***************************************************************************)
NotificationChain ==
    [][( Alerted /\ Unique(accounts) /\ OneEntry(accounts, Key(snap[1])) ) =>
          LET h == alerts[Key(snap[1])]
          IN  /\ h.kind = "sent" =>
                    /\ last'.msg.old = h.new
                    /\ Some(last'.msg.new) # h.new
              /\ h.kind = "new" => last'.msg.old = None]_vars

(***************************************************************************)
(* C35, amended.  An alert is for the key of the snapshot entry the loop   *)
(* is at, shows as old the last_balance of that snapshot entry (unknown    *)
(* when it has none) and as new the value just fetched, which differs.     *)
(* When the alert before it for the key was made in an earlier cycle, no   *)
(* command has touched the key since, and one entry of the store holds the *)
(* key, the old value of the alert is the new value of the alert before    *)
(* it, and its new value is another one.                                   *)
(***************************************************************************)
NotificationChainBySnapshot ==
    [][Alerted =>
          LET h == alerts[Key(snap[1])]
          IN  /\ last'.msg.to = snap[1].chat_id
              /\ last'.msg.account_id = snap[1].account_id
              /\ last'.msg.old = snap[1].last_balance
              /\ last'.msg.new = cur[1]
              /\ Some(last'.msg.new) # last'.msg.old
              /\ alerts'[Key(snap[1])] = SentAlert(cur[1])
              /\ ( /\ h.kind = "sent" /\ h.cycle = "past"
                   /\ OneEntry(accounts, Key(snap[1])) ) =>
                      /\ last'.msg.old = h.new
                      /\ Some(last'.msg.new) # h.new]_vars

\* The second alert of a chain has been made: it shows as old the balance
\* that the first, of an earlier cycle, gave as new.
ChainedAlertReached ==
    /\ last.op = "alert"
    /\ last.msg.old # None
    /\ Unique(accounts)
    /\ OneEntry(accounts, <<last.msg.to, last.msg.account_id>>)
    /\ accounts[1].last_balance = last.msg.old
    /\ alerts[<<last.msg.to, last.msg.account_id>>] = SentAlert(last.msg.new)

(***************************************************************************)
(* C36.  Deadlock freedom and progress.  No task holds the Mutex of the    *)
(* subscriber registry and the Mutex of the watchlist at the same time:    *)
(* a handler that holds the first holds it alone and is not waiting, and   *)
(* the loop never takes it.  Every external call returning, every handler  *)
(* that has started comes to its end and every cycle that has started      *)
(* comes back to waiting for the tick.                                     *)
(***************************************************************************)
DeadlockFreedom ==
    /\ [](\A c \in Chats :
            /\ holds_users(tasks[c]) => lock # Handler(c)
            /\ lock = Handler(c) => tasks[c].pc \in {"save", "reply"}
            /\ holds_users(tasks[c]) =>
                  \A d \in Chats \ {c} : ~holds_users(tasks[d]))
    /\ \A c \in Chats : (tasks[c].pc # "idle") ~> (tasks[c].pc = "idle")
    /\ (spc # "tick") ~> (spc = "tick")

\* Both handlers and the loop stand at a lock: chat 1 holds the Mutex of
\* the watchlist while it replies, chat 2 holds the Mutex of the registry,
\* and the loop waits for the watchlist with a balance to write back.
AllAtLocksReached ==
    /\ tasks[1].pc = "reply" /\ lock = Handler(1)
    /\ tasks[2].pc = "record"
    /\ spc = "update"

(***************************************************************************)
(* C37.  A failed reply does not undo a command.  When the reply that      *)
(* tells of an add, a removal or a rename that was made and saved fails,   *)
(* the handler ends, with the error of send_message, and the store and the *)
(* file stay as the command left them: the file holds the store, the entry *)
(* that was added or renamed is there, the one that was removed is not.    *)
(***************************************************************************)
FailedReplyKeepsMutation ==
    [][\A c \in Chats :
          ( /\ Replies(c) /\ last'.ret = "Err"
            /\ tasks[c].text.kind \in {"added", "removed", "updated"} ) =>
              /\ tasks'[c] = Idle
              /\ StoreUntouched
              /\ file' = Data(to_string_pretty(accounts'))
              /\ tasks[c].text.kind = "added" =>
                    HasKey(accounts', id_of(tasks[c].args), c)
              /\ tasks[c].text.kind = "removed" =>
                    ~HasKey(accounts', id_of(tasks[c].args), c)
              /\ tasks[c].text.kind = "updated" =>
                    HasKey(accounts', tasks[c].args[2], c)]_vars

\* The reply "Added .. to monitoring list." of chat 1 has failed, and the
\* entry is in the store and in the file.
FailedReplyAfterAddReached ==
    /\ last.op = "reply" /\ last.ret = "Err" /\ last.chat = 1
    /\ last.text = "added"
    /\ \E i \in 1..Len(accounts) : accounts[i].chat_id = 1
    /\ file = Data(to_string_pretty(accounts))

(***************************************************************************)
(* C38.  fetch_transactions returns, for every response list, a list in    *)
(* which no two transactions share a hash, the first occurrence of each    *)
(* hash being the one kept, of at most ten transactions, ordered newest    *)
(* first: the numbers that the block timestamps write do not increase      *)
(* along the list, whatever the lengths of their strings (stated for the   *)
(* timestamps that parse as numbers).                                      *)
(***************************************************************************)
TxnsFetched == last.op = "fetch_transactions" /\ "txns" \in DOMAIN last

NewestFirstDeduplicated ==
    TxnsFetched =>
        /\ \A i, j \in 1..Len(last.txs) :
              last.txs[i].hash = last.txs[j].hash => i = j
        /\ \A i \in 1..Len(last.txs) :
              \E j \in 1..Len(last.txns) :
                 /\ last.txns[j] = last.txs[i]
                 /\ \A k \in 1..(j - 1) : last.txns[k].hash # last.txs[i].hash
        /\ Len(last.txs) <= TruncateLen
        /\ \A i \in 1..(Len(last.txs) - 1) :
              LET newer == parse_digits(last.txs[i].block_timestamp)
                  older == parse_digits(last.txs[i + 1].block_timestamp)
              IN  ( newer # None /\ older # None ) =>
                     leq(older[1], newer[1])

(***************************************************************************)
(* C39.  Startup broadcast.  Before the monitoring loop is spawned and     *)
(* before any command is handled, run() attempts the restart notice once   *)
(* for every subscriber id that it loaded from the registry.  A delivery   *)
(* that fails does not keep the remaining subscribers from their attempts  *)
(* and does not stop the startup: the loop and the handlers are spawned    *)
(* after the last attempt, whatever the attempts came to.                  *)
(***************************************************************************)
Attempted == {notice.attempts[i].user_id : i \in 1..Len(notice.attempts)}

StartupBroadcast ==
    /\ [][~alive =>
            /\ UNCHANGED <<file, tmp, users_file, spc, snap, cur, lock,
                           tasks, due, alerts>>
            /\ notice.pc = "broadcast" => UNCHANGED <<accounts, users>>
            /\ ( notice.pc = "broadcast" /\ notice.users # <<>> ) =>
                  /\ ~alive'
                  /\ notice'.users = Tail(notice.users)
                  /\ Len(notice'.attempts) = Len(notice.attempts) + 1
                  /\ notice'.attempts[Len(notice'.attempts)].user_id
                        = Head(notice.users)
            /\ alive' =>
                  /\ notice.pc = "broadcast" /\ notice.users = <<>>
                  /\ notice'.attempts = notice.attempts
                  /\ Len(notice.attempts)
                        = Cardinality(load_users(users_file))
                  /\ Attempted = load_users(users_file)
                  /\ users = load_users(users_file)]_vars
    /\ []( ( notice.pc = "broadcast" /\ notice.users # <<>> ) =>
              \A sent \in Sent : ENABLED Notify(sent) )
    /\ []( ( notice.pc = "broadcast" /\ notice.users = <<>> ) =>
              ENABLED SpawnTasks )

\* The notice failed for the first of three subscribers and was delivered
\* to the third; the loop and the handlers run, and a command has been
\* handled.
SpawnedAfterFailedNoticeReached ==
    /\ alive /\ notice.pc = "spawned"
    /\ Len(notice.attempts) = 3
    /\ notice.attempts[1].sent = "Err"
    /\ notice.attempts[3].sent = "Ok"
    /\ accounts # <<>>

====
